---- MODULE Spec2Model ----
(***************************************************************************)
(* A model of the chess rules engine of chess_game: the Piece objects, the *)
(* MoveGenerator of pieces.py and the Board of board.py.                   *)
(*                                                                         *)
(* Python objects are modelled with a heap: a Board's grid holds           *)
(* references to Piece objects, and a Piece's has_moved flag is changed in *)
(* place.  A call that raises is modelled by a result whose exc field is   *)
(* TRUE (the only exception the modelled code raises is the TypeError of a *)
(* call of MoveGenerator.get_moves with the keyword skip_castling, which   *)
(* its signature does not accept).                                         *)
(***************************************************************************)
EXTENDS Integers, Sequences, FiniteSets, TLC

VARIABLES
    heap,     \* the Piece objects: reference -> [type, color, has_moved]
    board,    \* the Board object the caller holds
    orig,     \* the Board object the last make_move_copy was called on
    last,     \* the last call made on a Board and how it ended
    depth,    \* number of make_move_copy calls between Board() and board
    nodes_evaluated,  \* the field nodes_evaluated of each ChessAI object
    eval_history,     \* an EvaluationHistory object: history, min_eval, max_eval
    gui               \* the fields of the ChessPygameGUI object and its timer

vars == <<heap, board, orig, last, depth, nodes_evaluated, eval_history, gui>>

---------------------------------------------------------------------------
(* Bounds of the model *)

\* the longest chain of make_move_copy calls followed from Board()
MaxPly == 6

\* Piece objects a Board can own beyond the 32 of the initial position
\* (each promotion constructs one)
MaxPromoted == 1

\* unvalidated moves along one line of make_move_copy
MaxRawPly == 3

\* evaluations added to one EvaluationHistory
MaxEvaluations == 3

---------------------------------------------------------------------------
(* pieces.py: Color, PieceType, Piece *)

WHITE == "WHITE"

BLACK == "BLACK"

Color == {WHITE, BLACK}

PAWN == "PAWN"

ROOK == "ROOK"

KNIGHT == "KNIGHT"

BISHOP == "BISHOP"

QUEEN == "QUEEN"

KING == "KING"

PieceType == {PAWN, ROOK, KNIGHT, BISHOP, QUEEN, KING}

\* the value None where a Piece or a PieceType is expected
NONE == "NONE"

\* Piece(piece_type, color): has_moved starts False
Piece(piece_type, color) ==
    [type |-> piece_type, color |-> color, has_moved |-> FALSE]

\* what reference 0 (None) and an unused reference stand for
NoPiece == [type |-> NONE, color |-> NONE, has_moved |-> FALSE]

\* Piece objects made by Board._initialize_board
InitialPieces == 32

\* references a Board's own objects take; the Board that make_move_copy
\* was called on keeps its objects at HeapSize + 1 .. 2 * HeapSize
HeapSize == InitialPieces + MaxPromoted

Refs == 0 .. (2 * HeapSize)

opponent(color) == IF color = WHITE THEN BLACK ELSE WHITE

---------------------------------------------------------------------------
(* How a call ends *)

\* the call returned v
Ok(v) == [exc |-> FALSE, val |-> v]

\* the call raised; val is a filler of the type the call returns
Raised(filler) == [exc |-> TRUE, val |-> filler]

\* F(value): value is computed once and then named, as a local variable
\* assigned once is
Bind(value, F(_)) == CHOOSE out \in {F(x) : x \in {value}} : TRUE

---------------------------------------------------------------------------
(* board.py: Board.__init__, _initialize_board, get_piece *)

back_rank_pieces == <<ROOK, KNIGHT, BISHOP, QUEEN, KING, BISHOP, KNIGHT, ROOK>>

\* the reference of the Piece _initialize_board puts on (row, col)
InitialRef(row, col) ==
    CASE row = 0 -> col + 1
      [] row = 1 -> 8 + col + 1
      [] row = 6 -> 16 + col + 1
      [] row = 7 -> 24 + col + 1
      [] OTHER -> 0

InitialHeap ==
    [ref \in Refs |->
        IF ref \in 1 .. 8 THEN Piece(back_rank_pieces[ref], BLACK)
        ELSE IF ref \in 9 .. 16 THEN Piece(PAWN, BLACK)
        ELSE IF ref \in 17 .. 24 THEN Piece(PAWN, WHITE)
        ELSE IF ref \in 25 .. 32 THEN Piece(back_rank_pieces[ref - 24], WHITE)
        ELSE NoPiece]

\* en_passant_target None is <<>>, a square is <<row, col>>;
\* castling_rights[color] is <<kingside, queenside>>
InitialBoard ==
    [board |-> [row \in 0 .. 7 |-> [col \in 0 .. 7 |-> InitialRef(row, col)]],
     current_turn |-> WHITE,
     move_history |-> <<>>,
     en_passant_target |-> <<>>,
     castling_rights |-> [c \in Color |-> <<TRUE, TRUE>>]]

\* no Board: make_move_copy has not been called yet
NoBoard ==
    [board |-> [row \in 0 .. 7 |-> [col \in 0 .. 7 |-> 0]],
     current_turn |-> NONE,
     move_history |-> <<>>,
     en_passant_target |-> <<>>,
     castling_rights |-> [c \in Color |-> <<FALSE, FALSE>>]]

is_valid_position(row, col) == 0 <= row /\ row < 8 /\ 0 <= col /\ col < 8

\* self.board[row][col], the Piece object looked up in the heap
At(h, b, row, col) == h[b.board[row][col]]

---------------------------------------------------------------------------
(* pieces.py: MoveGenerator.  Each generator returns the list of           *)
(* destinations in the order the code appends them.                        *)

\* a destination is accepted if empty or held by the other color
Landable(h, b, row, col, color) ==
    /\ is_valid_position(row, col)
    /\ At(h, b, row, col).color # color

get_pawn_moves(h, b, row, col, color) ==
    LET direction == IF color = WHITE THEN -1 ELSE 1
        start_row == IF color = WHITE THEN 6 ELSE 1
        one == row + direction
        two == row + 2 * direction
        forward ==
            IF 0 <= one /\ one < 8 /\ b.board[one][col] = 0
            THEN <<<<one, col>>>> \o
                 (IF row = start_row /\ b.board[two][col] = 0
                  THEN <<<<two, col>>>> ELSE <<>>)
            ELSE <<>>
        capture(dc) ==
            IF /\ 0 <= one /\ one < 8 /\ 0 <= col + dc /\ col + dc < 8
               /\ b.board[one][col + dc] # 0
               /\ At(h, b, one, col + dc).color # color
            THEN <<<<one, col + dc>>>> ELSE <<>>
    IN  forward \o capture(-1) \o capture(1)

\* one direction of a rook's or bishop's loop: i = from, from + 1, ...
RECURSIVE Ray(_, _, _, _, _, _, _, _)
Ray(h, b, row, col, color, dr, dc, i) ==
    LET new_row == row + dr * i
        new_col == col + dc * i
    IN  IF i >= 8 \/ ~is_valid_position(new_row, new_col) THEN <<>>
        ELSE IF b.board[new_row][new_col] = 0
             THEN <<<<new_row, new_col>>>> \o
                  Ray(h, b, row, col, color, dr, dc, i + 1)
        ELSE IF At(h, b, new_row, new_col).color # color
             THEN <<<<new_row, new_col>>>>
        ELSE <<>>

rook_directions == <<<<0, 1>>, <<0, -1>>, <<1, 0>>, <<-1, 0>>>>

bishop_directions == <<<<1, 1>>, <<1, -1>>, <<-1, 1>>, <<-1, -1>>>>

knight_moves ==
    <<<<-2, -1>>, <<-2, 1>>, <<-1, -2>>, <<-1, 2>>,
      <<1, -2>>, <<1, 2>>, <<2, -1>>, <<2, 1>>>>

king_moves ==
    <<<<-1, -1>>, <<-1, 0>>, <<-1, 1>>, <<0, -1>>,
      <<0, 1>>, <<1, -1>>, <<1, 0>>, <<1, 1>>>>

\* the rays along directions[k], directions[k + 1], ...
RECURSIVE Rays(_, _, _, _, _, _, _)
Rays(h, b, row, col, color, directions, k) ==
    IF k > Len(directions) THEN <<>>
    ELSE Ray(h, b, row, col, color, directions[k][1], directions[k][2], 1) \o
         Rays(h, b, row, col, color, directions, k + 1)

\* the single steps offsets[k], offsets[k + 1], ... that can be landed on
RECURSIVE Steps(_, _, _, _, _, _, _)
Steps(h, b, row, col, color, offsets, k) ==
    IF k > Len(offsets) THEN <<>>
    ELSE LET new_row == row + offsets[k][1]
             new_col == col + offsets[k][2]
         IN  (IF Landable(h, b, new_row, new_col, color)
              THEN <<<<new_row, new_col>>>> ELSE <<>>) \o
             Steps(h, b, row, col, color, offsets, k + 1)

get_rook_moves(h, b, row, col, color) ==
    Rays(h, b, row, col, color, rook_directions, 1)

get_knight_moves(h, b, row, col, color) ==
    Steps(h, b, row, col, color, knight_moves, 1)

get_bishop_moves(h, b, row, col, color) ==
    Rays(h, b, row, col, color, bishop_directions, 1)

get_queen_moves(h, b, row, col, color) ==
    get_rook_moves(h, b, row, col, color) \o
    get_bishop_moves(h, b, row, col, color)

\* the eight neighbours only: no castling destination is generated
get_king_moves(h, b, row, col, color) ==
    Steps(h, b, row, col, color, king_moves, 1)

\* MoveGenerator.get_moves(board, row, col)
get_moves(h, b, row, col) ==
    LET piece == At(h, b, row, col)
    IN  CASE b.board[row][col] = 0 -> <<>>
          [] piece.type = PAWN -> get_pawn_moves(h, b, row, col, piece.color)
          [] piece.type = ROOK -> get_rook_moves(h, b, row, col, piece.color)
          [] piece.type = KNIGHT -> get_knight_moves(h, b, row, col, piece.color)
          [] piece.type = BISHOP -> get_bishop_moves(h, b, row, col, piece.color)
          [] piece.type = QUEEN -> get_queen_moves(h, b, row, col, piece.color)
          [] piece.type = KING -> get_king_moves(h, b, row, col, piece.color)
          [] OTHER -> <<>>

\* MoveGenerator.get_moves(board, row, col, skip_castling=True): get_moves
\* takes (board, row, col) only, so the call raises TypeError before the
\* body runs
get_moves_skip_castling(h, b, row, col) == Raised(<<>>)

\* (row, col) in moves
InList(row, col, moves) == \E k \in 1 .. Len(moves) : moves[k] = <<row, col>>

---------------------------------------------------------------------------
(* board.py: copying a Board *)

\* a reference of a Board's own objects, renamed to the range its objects
\* take while it is the Board make_move_copy was called on
Renamed(ref) == IF 0 < ref /\ ref <= HeapSize THEN ref + HeapSize ELSE ref

\* the Board b with every reference it holds renamed
RenamedBoard(b) ==
    [b EXCEPT
        !.board = [row \in 0 .. 7 |-> [col \in 0 .. 7 |-> Renamed(b.board[row][col])]],
        !.move_history =
            [k \in 1 .. Len(b.move_history) |->
                [b.move_history[k] EXCEPT ![5] = Renamed(b.move_history[k][5])]]]

\* deepcopy without the Piece objects: a new Board with new lists that
\* hold the Piece objects of self
deepcopy_sharing_pieces(h, b) ==
    [heap |-> [ref \in Refs |->
                  IF ref > HeapSize THEN h[ref - HeapSize] ELSE NoPiece],
     self |-> RenamedBoard(b),
     copy |-> RenamedBoard(b)]

\* deepcopy(self): a new Board, new lists and a new Piece object for every
\* Piece self refers to.  self's objects are renamed to the upper range
\* and the copy's objects take the names self's had.
deepcopy(h, b) ==
    [heap |-> [ref \in Refs |->
                  IF ref > HeapSize THEN h[ref - HeapSize] ELSE h[ref]],
     self |-> RenamedBoard(b),
     copy |-> b]

\* the references a Board holds: its grid and the captured pieces of its
\* move history
Held(b) ==
    {b.board[row][col] : row \in 0 .. 7, col \in 0 .. 7} \cup
    {b.move_history[k][5] : k \in 1 .. Len(b.move_history)}

\* the heap once the objects neither b1 nor b2 refers to are freed
Collect(h, b1, b2) ==
    LET live == Held(b1) \cup Held(b2)
    IN  [ref \in Refs |-> IF ref \in live THEN h[ref] ELSE NoPiece]

\* a reference for a Piece object constructed by code working on a Board
\* whose objects are in the lower range (0 when the heap is full)
FreshRef(h) ==
    IF \E ref \in 1 .. HeapSize : h[ref] = NoPiece
    THEN CHOOSE ref \in 1 .. HeapSize :
            /\ h[ref] = NoPiece
            /\ \A other \in 1 .. (ref - 1) : h[other] # NoPiece
    ELSE 0

\* a Board with its references replaced by the Piece objects they refer
\* to: what an observer of the Board's attributes sees
View(h, b) ==
    [board |-> [row \in 0 .. 7 |-> [col \in 0 .. 7 |-> At(h, b, row, col)]],
     current_turn |-> b.current_turn,
     move_history |->
         [k \in 1 .. Len(b.move_history) |->
             [b.move_history[k] EXCEPT ![5] = h[b.move_history[k][5]]]],
     en_passant_target |-> b.en_passant_target,
     castling_rights |-> b.castling_rights]

---------------------------------------------------------------------------
(* board.py: Board._apply_move_directly *)

\* self.board[row][col] = ref
Put(grid, row, col, ref) == [grid EXCEPT ![row][col] = ref]

\* piece.has_moved = True on the object ref refers to (None has no flag)
MarkMoved(h, ref) ==
    IF ref = 0 THEN h ELSE [h EXCEPT ![ref].has_moved = TRUE]

\* a rook relocation that leaves the rook's has_moved as it was
CastleRook_leaving_the_rook_unmarked(h, grid, piece, from_row, from_col, to_col) ==
    LET king_row == IF piece.color = WHITE THEN 7 ELSE 0
        IsKingHome == piece.type = KING /\ from_col = 4 /\ from_row = king_row
    IN  IF IsKingHome /\ to_col = 6
        THEN [heap |-> h,
              grid |-> Put(Put(grid, king_row, 5, grid[king_row][7]), king_row, 7, 0),
              is_castling |-> TRUE]
        ELSE IF IsKingHome /\ to_col = 2
        THEN [heap |-> h,
              grid |-> Put(Put(grid, king_row, 3, grid[king_row][0]), king_row, 0, 0),
              is_castling |-> TRUE]
        ELSE [heap |-> h, grid |-> grid, is_castling |-> FALSE]

\* the rook relocation of a king leaving (king_row, 4) for column 6 or 2
CastleRook(h, grid, piece, from_row, from_col, to_col) ==
    LET king_row == IF piece.color = WHITE THEN 7 ELSE 0
        IsKingHome == piece.type = KING /\ from_col = 4 /\ from_row = king_row
    IN  IF IsKingHome /\ to_col = 6
        THEN [heap |-> MarkMoved(h, grid[king_row][7]),
              grid |-> Put(Put(grid, king_row, 5, grid[king_row][7]), king_row, 7, 0),
              is_castling |-> TRUE]
        ELSE IF IsKingHome /\ to_col = 2
        THEN [heap |-> MarkMoved(h, grid[king_row][0]),
              grid |-> Put(Put(grid, king_row, 3, grid[king_row][0]), king_row, 0, 0),
              is_castling |-> TRUE]
        ELSE [heap |-> h, grid |-> grid, is_castling |-> FALSE]

\* a target set by every move of a pawn from its start row
NewEnPassantTarget_for_any_move_from_the_start_row(piece, from_row, from_col, to_row) ==
    LET direction == IF piece.color = WHITE THEN -1 ELSE 1
        start_row == IF piece.color = WHITE THEN 6 ELSE 1
    IN  IF piece.type = PAWN /\ from_row = start_row
        THEN <<from_row + direction, from_col>>
        ELSE <<>>

\* the target set by a pawn's double step from its start row, else None
NewEnPassantTarget(piece, from_row, from_col, to_row) ==
    LET direction == IF piece.color = WHITE THEN -1 ELSE 1
        start_row == IF piece.color = WHITE THEN 6 ELSE 1
    IN  IF /\ piece.type = PAWN
           /\ from_row = start_row
           /\ to_row = from_row + 2 * direction
        THEN <<from_row + direction, from_col>>
        ELSE <<>>

\* castling rights after piece (as it is after promotion) left from_col
RightsAfterMove(rights, piece, from_col) ==
    IF piece.type = KING
    THEN [rights EXCEPT ![piece.color] = <<FALSE, FALSE>>]
    ELSE IF piece.type = ROOK /\ from_col = 7
    THEN [rights EXCEPT ![piece.color] = <<FALSE, rights[piece.color][2]>>]
    ELSE IF piece.type = ROOK /\ from_col = 0
    THEN [rights EXCEPT ![piece.color] = <<rights[piece.color][1], FALSE>>]
    ELSE rights

\* whether piece moving to to_row is a pawn reaching its farthest rank
Promotes(piece, to_row) ==
    /\ piece.type = PAWN
    /\ \/ piece.color = WHITE /\ to_row = 0
       \/ piece.color = BLACK /\ to_row = 7

\* a promotion that always constructs a Queen
PromotedPiece_always_queen(piece, promotion_piece) ==
    [type |-> QUEEN, color |-> piece.color, has_moved |-> TRUE]

\* the Piece a promotion constructs: promotion_piece, or Queen when the
\* caller passed None
PromotedPiece(piece, promotion_piece) ==
    [type |-> IF promotion_piece # NONE THEN promotion_piece ELSE QUEEN,
     color |-> piece.color,
     has_moved |-> TRUE]

\* _apply_move_directly(from_row, from_col, to_row, to_col, promotion_piece)
\* on the Board b; returns the heap and the Board as the call leaves them
_apply_move_directly(h, b, from_row, from_col, to_row, to_col, promotion_piece) ==
    LET ref == b.board[from_row][from_col]
        piece == h[ref]
        castled == CastleRook(h, b.board, piece, from_row, from_col, to_col)
        direction == IF piece.color = WHITE THEN -1 ELSE 1
        is_en_passant ==
            piece.type = PAWN /\ b.en_passant_target = <<to_row, to_col>>
        grid2 == IF is_en_passant
                 THEN Put(castled.grid, to_row - direction, to_col, 0)
                 ELSE castled.grid
        promotes == Promotes(piece, to_row)
        new_ref == IF promotes THEN FreshRef(castled.heap) ELSE ref
        heap3 == IF promotes
                 THEN [castled.heap EXCEPT
                          ![new_ref] = PromotedPiece(piece, promotion_piece)]
                 ELSE castled.heap
        placed == heap3[new_ref]
        grid4 == Put(Put(grid2, to_row, to_col, new_ref), from_row, from_col, 0)
    IN  IF ref = 0 THEN [heap |-> h, board |-> b]
        ELSE [heap |-> MarkMoved(heap3, new_ref),
              board |->
                 [b EXCEPT
                    !.board = grid4,
                    !.en_passant_target =
                        NewEnPassantTarget(placed, from_row, from_col, to_row),
                    !.castling_rights =
                        RightsAfterMove(b.castling_rights, placed, from_col),
                    !.current_turn = opponent(b.current_turn)]]

---------------------------------------------------------------------------
(* board.py: find_king, is_in_check, _is_square_under_attack, castling *)

\* squares are visited row by row: square k is (k \div 8, k % 8)
RowOf(k) == k \div 8

ColOf(k) == k % 8

\* the first square from k on, row by row, that holds a piece of color
\* (64 when there is none)
NextOf(h, b, color, k) ==
    IF \E j \in k .. 63 : At(h, b, RowOf(j), ColOf(j)).color = color
    THEN CHOOSE j \in k .. 63 :
            /\ At(h, b, RowOf(j), ColOf(j)).color = color
            /\ \A i \in k .. (j - 1) : At(h, b, RowOf(i), ColOf(i)).color # color
    ELSE 64

\* find_king(color): the first king of that color, <<>> for None
find_king(h, b, color) ==
    LET IsKing(j) == /\ At(h, b, RowOf(j), ColOf(j)).type = KING
                     /\ At(h, b, RowOf(j), ColOf(j)).color = color
    IN  IF \E j \in 0 .. 63 : IsKing(j)
        THEN LET k == CHOOSE j \in 0 .. 63 :
                         IsKing(j) /\ \A i \in 0 .. (j - 1) : ~IsKing(i)
             IN  <<RowOf(k), ColOf(k)>>
        ELSE <<>>

\* the loop shared by is_in_check and _is_square_under_attack, from square
\* k on: the first piece of attacker_color whose
\* get_moves(..., skip_castling=True) raises or holds (row, col) decides
RECURSIVE AttackScan(_, _, _, _, _, _)
AttackScan(h, b, row, col, attacker_color, k) ==
    Bind(NextOf(h, b, attacker_color, k), LAMBDA j :
        IF j >= 64 THEN Ok(FALSE)
        ELSE Bind(get_moves_skip_castling(h, b, RowOf(j), ColOf(j)), LAMBDA moves :
            IF moves.exc THEN Raised(FALSE)
            ELSE IF InList(row, col, moves.val) THEN Ok(TRUE)
            ELSE AttackScan(h, b, row, col, attacker_color, j + 1)))

_is_square_under_attack(h, b, row, col, attacker_color) ==
    AttackScan(h, b, row, col, attacker_color, 0)

is_in_check(h, b, color) ==
    LET king_pos == find_king(h, b, color)
    IN  IF king_pos = <<>> THEN Ok(FALSE)
        ELSE AttackScan(h, b, king_pos[1], king_pos[2], opponent(color), 0)

\* "not a and not b and not c" over calls that may raise: the first call
\* that raises or returns True decides
RECURSIVE NoneAttacked(_, _, _, _, _)
NoneAttacked(h, b, squares, attacker_color, k) ==
    IF k > Len(squares) THEN Ok(TRUE)
    ELSE LET r == _is_square_under_attack(h, b, squares[k][1], squares[k][2],
                                          attacker_color)
         IN  IF r.exc THEN Raised(FALSE)
             ELSE IF r.val THEN Ok(FALSE)
             ELSE NoneAttacked(h, b, squares, attacker_color, k + 1)

\* the part of can_castle_* the two share: right (1 kingside, 2 queenside),
\* the rook's column, the columns that must be empty, and the columns the
\* king must not be attacked on, in the order the code tests them
CanCastle(h, b, color, right, rook_col, empty_cols, safe_cols) ==
    LET king_row == IF color = WHITE THEN 7 ELSE 0
        king == At(h, b, king_row, 4)
        rook == At(h, b, king_row, rook_col)
    IN  IF ~b.castling_rights[color][right] THEN Ok(FALSE)
        ELSE IF \/ king.type # KING \/ king.has_moved
                \/ rook.type # ROOK \/ rook.has_moved
                \/ \E c \in empty_cols : b.board[king_row][c] # 0
        THEN Ok(FALSE)
        ELSE NoneAttacked(h, b,
                          [k \in 1 .. Len(safe_cols) |-> <<king_row, safe_cols[k]>>],
                          opponent(color), 1)

can_castle_kingside(h, b, color) ==
    CanCastle(h, b, color, 1, 7, {5, 6}, <<4, 5, 6>>)

can_castle_queenside(h, b, color) ==
    CanCastle(h, b, color, 2, 0, {1, 2, 3}, <<4, 2, 3>>)

---------------------------------------------------------------------------
(* board.py: is_legal_move, get_all_moves, make_move_copy, needs_promotion *)

\* is_legal_move: the move on a deep copy, then not is_in_check(color)
is_legal_move(h, b, from_row, from_col, to_row, to_col, color) ==
    Bind(deepcopy(h, b), LAMBDA c :
    Bind(_apply_move_directly(c.heap, c.copy, from_row, from_col,
                              to_row, to_col, NONE), LAMBDA new_board :
    Bind(is_in_check(new_board.heap, new_board.board, color), LAMBDA check :
        IF check.exc THEN Raised(FALSE) ELSE Ok(~check.val))))

\* the inner loop of get_all_moves over piece_moves[i], piece_moves[i+1], ...
\* appended to moves: the first is_legal_move that raises ends the loop,
\* otherwise the moves it finds legal are appended in order
LegalOfPiece(h, b, color, row, col, piece_moves, i, moves) ==
    LET n == Len(piece_moves)
        Verdict(k) == is_legal_move(h, b, row, col, piece_moves[k][1],
                                    piece_moves[k][2], color)
    IN  IF i > n THEN Ok(moves)
        ELSE IF Verdict(i).exc THEN Raised(<<>>)
        ELSE Bind({<<k, Verdict(k)>> : k \in i .. n}, LAMBDA verdicts :
            IF \E v \in verdicts : v[2].exc THEN Raised(<<>>)
            ELSE LET IsLegal(to) ==
                         \E v \in verdicts : piece_moves[v[1]] = to /\ v[2].val
                     legal == SelectSeq(piece_moves, IsLegal)
                 IN  Bind(moves \o [t \in 1 .. Len(legal) |->
                                       <<row, col, legal[t][1], legal[t][2]>>],
                          LAMBDA appended : Ok(appended)))

\* the outer loops of get_all_moves over the squares lo, ..., hi in that
\* order (square j is row j \div 8, column j % 8), from the list collected
\* so far; an exception ends them
RECURSIVE AllMovesFrom(_, _, _, _, _, _)
AllMovesFrom(h, b, color, lo, hi, collected) ==
    IF collected.exc \/ lo > hi THEN collected
    ELSE IF lo = hi
    THEN IF /\ b.board[RowOf(lo)][ColOf(lo)] # 0
            /\ At(h, b, RowOf(lo), ColOf(lo)).color = color
         THEN Bind(get_moves(h, b, RowOf(lo), ColOf(lo)), LAMBDA piece_moves :
                 LegalOfPiece(h, b, color, RowOf(lo), ColOf(lo), piece_moves,
                              1, collected.val))
         ELSE collected
    ELSE Bind(AllMovesFrom(h, b, color, lo, (lo + hi) \div 2, collected),
              LAMBDA half :
                 AllMovesFrom(h, b, color, (lo + hi) \div 2 + 1, hi, half))

\* get_all_moves(color): the list of (from_row, from_col, to_row, to_col)
get_all_moves(h, b, color) == AllMovesFrom(h, b, color, 0, 63, Ok(<<>>))

\* a make_move_copy that applies the move to self and returns a copy of it
make_move_copy_moving_self(h, b, from_row, from_col, to_row, to_col, promotion_piece) ==
    LET moved == _apply_move_directly(h, b, from_row, from_col,
                                      to_row, to_col, promotion_piece)
        c == deepcopy(moved.heap, moved.board)
    IN  [heap |-> c.heap, self |-> c.self, new_board |-> c.copy]

\* make_move_copy: self as the call leaves it, the returned Board and the
\* heap
make_move_copy(h, b, from_row, from_col, to_row, to_col, promotion_piece) ==
    LET c == deepcopy(h, b)
        new_board == _apply_move_directly(c.heap, c.copy, from_row, from_col,
                                          to_row, to_col, promotion_piece)
    IN  [heap |-> new_board.heap, self |-> c.self, new_board |-> new_board.board]

needs_promotion(h, b, from_row, from_col, to_row) ==
    Promotes(At(h, b, from_row, from_col), to_row)

is_checkmate(h, b, color) ==
    LET check == is_in_check(h, b, color)
        moves == get_all_moves(h, b, color)
    IN  IF check.exc THEN Raised(FALSE)
        ELSE IF ~check.val THEN Ok(FALSE)
        ELSE IF moves.exc THEN Raised(FALSE)
        ELSE Ok(Len(moves.val) = 0)

is_stalemate(h, b, color) ==
    LET check == is_in_check(h, b, color)
        moves == get_all_moves(h, b, color)
    IN  IF check.exc THEN Raised(FALSE)
        ELSE IF check.val THEN Ok(FALSE)
        ELSE IF moves.exc THEN Raised(FALSE)
        ELSE Ok(Len(moves.val) = 0)

---------------------------------------------------------------------------
(* board.py: Board.make_move *)

\* how a call of make_move ends
RetTrue == "True"

RetFalse == "False"

TypeError == "TypeError"

\* the update for a captured rook with kingside, queenside read from the
\* rights of the capturing colour
RightsAfterCapture_reading_the_mover(rights, captured, to_col) ==
    LET mover == opponent(captured.color)
    IN  IF captured.type = ROOK /\ to_col = 7
        THEN [rights EXCEPT ![captured.color] = <<FALSE, rights[mover][2]>>]
        ELSE IF captured.type = ROOK /\ to_col = 0
        THEN [rights EXCEPT ![captured.color] = <<rights[mover][1], FALSE>>]
        ELSE rights

\* castling rights after the capture of the Piece captured (NoPiece for
\* None) on column to_col
RightsAfterCapture(rights, captured, to_col) ==
    IF captured.type = ROOK /\ to_col = 7
    THEN [rights EXCEPT ![captured.color] = <<FALSE, rights[captured.color][2]>>]
    ELSE IF captured.type = ROOK /\ to_col = 0
    THEN [rights EXCEPT ![captured.color] = <<rights[captured.color][1], FALSE>>]
    ELSE rights

\* lines 190-278 of make_move: the move made in place on the Board b once
\* the checks have passed
MakeMoveInPlace(h, b, from_row, from_col, to_row, to_col, promotion_piece) ==
    LET ref == b.board[from_row][from_col]
        piece == h[ref]
        castled == CastleRook(h, b.board, piece, from_row, from_col, to_col)
        direction == IF piece.color = WHITE THEN -1 ELSE 1
        is_en_passant ==
            piece.type = PAWN /\ b.en_passant_target = <<to_row, to_col>>
        captured == IF is_en_passant
                    THEN castled.grid[to_row - direction][to_col]
                    ELSE castled.grid[to_row][to_col]
        grid2 == IF is_en_passant
                 THEN Put(castled.grid, to_row - direction, to_col, 0)
                 ELSE castled.grid
        promotes == Promotes(piece, to_row)
        new_ref == IF promotes THEN FreshRef(castled.heap) ELSE ref
        heap3 == IF promotes
                 THEN [castled.heap EXCEPT
                          ![new_ref] = PromotedPiece(piece, promotion_piece)]
                 ELSE castled.heap
        placed == heap3[new_ref]
        grid4 == Put(Put(grid2, to_row, to_col, new_ref), from_row, from_col, 0)
    IN  [heap |-> MarkMoved(heap3, new_ref),
         board |->
            [board |-> grid4,
             en_passant_target |->
                 NewEnPassantTarget(placed, from_row, from_col, to_row),
             castling_rights |->
                 RightsAfterCapture(
                     RightsAfterMove(b.castling_rights, placed, from_col),
                     h[captured], to_col),
             move_history |->
                 Append(b.move_history,
                        <<from_row, from_col, to_row, to_col, captured>>),
             current_turn |-> opponent(b.current_turn)]]

\* a make_move that makes the move and returns True without recording it
make_move_unrecorded(h, b, from_row, from_col, to_row, to_col, promotion_piece) ==
    LET unchanged(ret) == [ret |-> ret, heap |-> h, board |-> b]
        piece == At(h, b, from_row, from_col)
        legal == is_legal_move(h, b, from_row, from_col, to_row, to_col,
                               piece.color)
        made == MakeMoveInPlace(h, b, from_row, from_col, to_row, to_col,
                                promotion_piece)
    IN  IF \/ ~is_valid_position(from_row, from_col)
           \/ ~is_valid_position(to_row, to_col)
        THEN unchanged(RetFalse)
        ELSE IF b.board[from_row][from_col] = 0 \/ piece.color # b.current_turn
        THEN unchanged(RetFalse)
        ELSE IF ~InList(to_row, to_col, get_moves(h, b, from_row, from_col))
        THEN unchanged(RetFalse)
        ELSE IF legal.exc THEN unchanged(TypeError)
        ELSE IF ~legal.val THEN unchanged(RetFalse)
        ELSE [ret |-> RetTrue, heap |-> made.heap,
              board |-> [made.board EXCEPT !.move_history = b.move_history]]

\* make_move(from_row, from_col, to_row, to_col, promotion_piece): how the
\* call ends, and the heap and the Board as it leaves them
make_move(h, b, from_row, from_col, to_row, to_col, promotion_piece) ==
    LET unchanged(ret) == [ret |-> ret, heap |-> h, board |-> b]
        piece == At(h, b, from_row, from_col)
        legal == is_legal_move(h, b, from_row, from_col, to_row, to_col,
                               piece.color)
        made == MakeMoveInPlace(h, b, from_row, from_col, to_row, to_col,
                                promotion_piece)
    IN  IF \/ ~is_valid_position(from_row, from_col)
           \/ ~is_valid_position(to_row, to_col)
        THEN unchanged(RetFalse)
        ELSE IF b.board[from_row][from_col] = 0 \/ piece.color # b.current_turn
        THEN unchanged(RetFalse)
        ELSE IF ~InList(to_row, to_col, get_moves(h, b, from_row, from_col))
        THEN unchanged(RetFalse)
        ELSE IF legal.exc THEN unchanged(TypeError)
        ELSE IF ~legal.val THEN unchanged(RetFalse)
        ELSE [ret |-> RetTrue, heap |-> made.heap, board |-> made.board]

---------------------------------------------------------------------------
(* evaluator.py: Evaluator *)

\* Evaluator.PIECE_VALUES
PIECE_VALUES ==
    [t \in PieceType |->
        CASE t = PAWN -> 100 [] t = KNIGHT -> 320 [] t = BISHOP -> 330
          [] t = ROOK -> 500 [] t = QUEEN -> 900 [] t = KING -> 20000]

\* the sum of PIECE_VALUES over the pieces of color on the grid
MaterialOf(h, b, color) ==
    LET Count(t) == Cardinality({k \in 0 .. 63 :
                        /\ At(h, b, RowOf(k), ColOf(k)).type = t
                        /\ At(h, b, RowOf(k), ColOf(k)).color = color})
    IN  PIECE_VALUES[PAWN] * Count(PAWN) + PIECE_VALUES[KNIGHT] * Count(KNIGHT)
        + PIECE_VALUES[BISHOP] * Count(BISHOP) + PIECE_VALUES[ROOK] * Count(ROOK)
        + PIECE_VALUES[QUEEN] * Count(QUEEN) + PIECE_VALUES[KING] * Count(KING)

\* _material_balance(board, color)
_material_balance(h, b, color) ==
    MaterialOf(h, b, color) - MaterialOf(h, b, opponent(color))

\* evaluate(board, color): material, plus the number of own moves, minus 50
\* when in check
evaluate(h, b, color) ==
    Bind(get_all_moves(h, b, color), LAMBDA own_moves :
        IF own_moves.exc THEN Raised(0)
        ELSE Bind(is_in_check(h, b, color), LAMBDA check :
            IF check.exc THEN Raised(0)
            ELSE Ok(_material_balance(h, b, color) + Len(own_moves.val)
                    - (IF check.val THEN 50 ELSE 0))))

\* Evaluator.CENTER_SQUARES and Evaluator.EXTENDED_CENTER
CENTER_SQUARES == {<<3, 3>>, <<3, 4>>, <<4, 3>>, <<4, 4>>}

EXTENDED_CENTER ==
    {<<2, 2>>, <<2, 3>>, <<2, 4>>, <<2, 5>>, <<3, 2>>, <<3, 5>>,
     <<4, 2>>, <<4, 5>>, <<5, 2>>, <<5, 3>>, <<5, 4>>, <<5, 5>>}

\* _center_control(board, color): 2 for each centre square and 1 for each
\* extended-centre square a piece of color stands on, and 1 for each piece
\* of color with a centre square among its moves
_center_control(h, b, color) ==
    LET Own(sq) == /\ b.board[sq[1]][sq[2]] # 0
                   /\ At(h, b, sq[1], sq[2]).color = color
        CanAttack(sq) ==
            \E c \in CENTER_SQUARES :
                InList(c[1], c[2], get_moves(h, b, sq[1], sq[2]))
    IN  2 * Cardinality({sq \in CENTER_SQUARES : Own(sq)})
        + Cardinality({sq \in EXTENDED_CENTER : Own(sq)})
        + Cardinality({sq \in (0 .. 7) \X (0 .. 7) : Own(sq) /\ CanAttack(sq)})

\* _king_safety(board, color): -1000 without a king; otherwise -50 when in
\* check, 5 for each piece of color next to the king, -10 for a king beyond
\* its own half
_king_safety(h, b, color) ==
    Bind(find_king(h, b, color), LAMBDA king_pos :
        IF king_pos = <<>> THEN Ok(-1000)
        ELSE Bind(is_in_check(h, b, color), LAMBDA check :
            IF check.exc THEN Raised(0)
            ELSE LET friendly_pieces ==
                         Cardinality({d \in ({-1, 0, 1} \X {-1, 0, 1}) \ {<<0, 0>>} :
                            /\ is_valid_position(king_pos[1] + d[1],
                                                 king_pos[2] + d[2])
                            /\ b.board[king_pos[1] + d[1]][king_pos[2] + d[2]] # 0
                            /\ At(h, b, king_pos[1] + d[1],
                                  king_pos[2] + d[2]).color = color})
                     forward == \/ color = WHITE /\ king_pos[1] < 4
                                \/ color = BLACK /\ king_pos[1] > 3
                 IN  Ok((IF check.val THEN -50 ELSE 0) + friendly_pieces * 5
                        - (IF forward THEN 10 ELSE 0))))

---------------------------------------------------------------------------
(* ai.py: ChessAI *)

\* float('inf'): a value above every evaluation
inf == 1000000

Max(x, y) == IF x >= y THEN x ELSE y

Min(x, y) == IF x <= y THEN x ELSE y

\* Piece.VALUES, read by Piece.get_value()
VALUES == PIECE_VALUES

\* ChessAI(depth, color): the depth is at least 1, and nothing is counted yet
ChessAI(configured_depth, color) ==
    [depth |-> Max(1, configured_depth), color |-> color, nodes_evaluated |-> 0]

\* how a call of the search ended: the value or move it returned, the value
\* of the root where it has one, the calls of _minimax it made, the calls
\* of the evaluator among them, and for which flags and sides to move
\* _minimax was called
Searched(exc, val, value, nodes, leaves, sides) ==
    [exc |-> exc, val |-> val, value |-> value, nodes |-> nodes,
     leaves |-> leaves, sides |-> sides]

\* a call _minimax(board, ..., maximizing) of the engine self: its flag, and
\* whether board.current_turn is self.color
Node(self, b, maximizing) == <<maximizing, b.current_turn = self.color>>

\* board.make_move_copy(..., promotion_piece=PieceType.QUEEN): the new Board
\* and the heap with only its objects
Child_keeping_the_turn(h, b, move) ==
    LET r == make_move_copy(h, b, move[1], move[2], move[3], move[4], QUEEN)
    IN  [heap |-> Collect(r.heap, r.new_board, r.new_board),
         board |-> [r.new_board EXCEPT !.current_turn = b.current_turn]]

Child(h, b, move) ==
    LET r == make_move_copy(h, b, move[1], move[2], move[3], move[4], QUEEN)
    IN  [heap |-> Collect(r.heap, r.new_board, r.new_board),
         board |-> r.new_board]

center_squares == {<<3, 3>>, <<3, 4>>, <<4, 3>>, <<4, 4>>}

\* move_score(move) of _order_moves
move_score(h, b, move) ==
    LET capture == IF b.board[move[3]][move[4]] # 0
                   THEN 10000 + VALUES[At(h, b, move[3], move[4]).type]
                   ELSE 0
        center == IF <<move[3], move[4]>> \in center_squares THEN 100 ELSE 0
    IN  Bind(Child(h, b, move), LAMBDA test_board :
        Bind(is_in_check(test_board.heap, test_board.board,
                         opponent(b.current_turn)), LAMBDA check :
            IF check.exc THEN Raised(0)
            ELSE Ok(capture + (IF check.val THEN 5000 ELSE 0) + center)))

\* _order_moves(board, moves): sorted(moves, key=move_score, reverse=True),
\* a stable sort; the first move_score that raises ends it
_order_moves(h, b, moves) ==
    LET n == Len(moves)
    IN  IF n = 0 THEN Ok(<<>>)
        ELSE IF move_score(h, b, moves[1]).exc THEN Raised(<<>>)
        ELSE Bind({<<k, move_score(h, b, moves[k])>> : k \in 1 .. n},
                  LAMBDA scores :
            IF \E s \in scores : s[2].exc THEN Raised(<<>>)
            ELSE LET Score(k) == (CHOOSE s \in scores : s[1] = k)[2].val
                     Before(j, k) == \/ Score(j) > Score(k)
                                     \/ Score(j) = Score(k) /\ j < k
                     Rank(k) == 1 + Cardinality({j \in 1 .. n : Before(j, k)})
                 IN  Bind({<<Rank(k), moves[k]>> : k \in 1 .. n}, LAMBDA ranked :
                        Ok([t \in 1 .. n |->
                               (CHOOSE r \in ranked : r[1] = t)[2]])))

\* the state of the loop over moves in _minimax: the bounds, the best
\* value, the calls counted, whether the loop was left by break or by an
\* exception
MinimaxState(exc, done, alpha, beta, best, nodes, leaves, sides) ==
    [exc |-> exc, done |-> done, alpha |-> alpha, beta |-> beta, best |-> best,
     nodes |-> nodes, leaves |-> leaves, sides |-> sides]

\* _minimax(board, depth, alpha, beta, maximizing), one iteration of its
\* loop (for move) and the iterations for moves[lo], ..., moves[hi] in
\* that order from the state st
RECURSIVE _minimax(_, _, _, _, _, _, _)
MinimaxStep(self, h, b, remaining, maximizing, move, st) ==
    Bind(Child(h, b, move), LAMBDA new_board :
    Bind(_minimax(self, new_board.heap, new_board.board, remaining - 1,
                  st.alpha, st.beta, ~maximizing), LAMBDA r :
        IF r.exc
        THEN MinimaxState(TRUE, TRUE, st.alpha, st.beta, st.best,
                          st.nodes + r.nodes, st.leaves + r.leaves,
                          st.sides \cup r.sides)
        ELSE LET new_best == IF maximizing THEN Max(st.best, r.val)
                             ELSE Min(st.best, r.val)
                 new_alpha == IF maximizing THEN Max(st.alpha, r.val)
                              ELSE st.alpha
                 new_beta == IF maximizing THEN st.beta
                             ELSE Min(st.beta, r.val)
             IN  MinimaxState(FALSE, new_beta <= new_alpha, new_alpha, new_beta,
                              new_best, st.nodes + r.nodes,
                              st.leaves + r.leaves, st.sides \cup r.sides)))

RECURSIVE MinimaxLoop(_, _, _, _, _, _, _, _, _)
MinimaxLoop(self, h, b, remaining, maximizing, moves, st, lo, hi) ==
    IF st.done \/ lo > hi THEN st
    ELSE IF lo = hi
    THEN MinimaxStep(self, h, b, remaining, maximizing, moves[lo], st)
    ELSE Bind(MinimaxLoop(self, h, b, remaining, maximizing, moves, st,
                          lo, (lo + hi) \div 2), LAMBDA half :
            MinimaxLoop(self, h, b, remaining, maximizing, moves, half,
                        (lo + hi) \div 2 + 1, hi))

_minimax(self, h, b, remaining, alpha, beta, maximizing) ==
    IF remaining = 0
    THEN LET e == evaluate(h, b, self.color)
         IN  Searched(e.exc, e.val, e.val, 1, 1, {Node(self, b, maximizing)})
    ELSE LET current_color == IF maximizing THEN self.color
                              ELSE opponent(self.color)
         IN  Bind(get_all_moves(h, b, current_color), LAMBDA moves :
             IF moves.exc THEN Searched(TRUE, 0, 0, 1, 0, {Node(self, b, maximizing)})
             ELSE IF moves.val = <<>>
             THEN Bind(is_in_check(h, b, current_color), LAMBDA check :
                    IF check.exc THEN Searched(TRUE, 0, 0, 1, 0, {Node(self, b, maximizing)})
                    ELSE IF check.val
                    THEN LET mate == IF maximizing THEN -inf ELSE inf
                         IN  Searched(FALSE, mate, mate, 1, 0,
                                      {Node(self, b, maximizing)})
                    ELSE Searched(FALSE, 0, 0, 1, 0, {Node(self, b, maximizing)}))
             ELSE Bind(IF remaining >= self.depth - 2
                       THEN _order_moves(h, b, moves.val)
                       ELSE moves, LAMBDA ordered :
                    IF ordered.exc THEN Searched(TRUE, 0, 0, 1, 0, {Node(self, b, maximizing)})
                    ELSE Bind(MinimaxLoop(self, h, b, remaining, maximizing,
                                          ordered.val,
                                          MinimaxState(FALSE, FALSE, alpha, beta,
                                                       IF maximizing THEN -inf
                                                       ELSE inf, 1, 0,
                                                       {Node(self, b, maximizing)}),
                                          1, Len(ordered.val)), LAMBDA st :
                            IF st.exc
                            THEN Searched(TRUE, 0, 0, st.nodes, st.leaves,
                                          st.sides)
                            ELSE Searched(FALSE, st.best, st.best, st.nodes,
                                          st.leaves, st.sides))))

\* the state of the loop over moves in _search_at_depth: best_move (<<>>
\* for None), best_value, alpha, the calls counted, whether the loop was
\* left by break or by an exception
SearchState(exc, done, best_move, best_value, alpha, nodes, leaves, sides) ==
    [exc |-> exc, done |-> done, best_move |-> best_move,
     best_value |-> best_value, alpha |-> alpha, nodes |-> nodes,
     leaves |-> leaves, sides |-> sides]

\* one iteration of the loop of _search_at_depth (for move)
SearchStep(self, h, b, remaining, move, st) ==
    Bind(Child(h, b, move), LAMBDA new_board :
    Bind(_minimax(self, new_board.heap, new_board.board, remaining - 1,
                  st.alpha, inf, FALSE), LAMBDA r :
        IF r.exc
        THEN SearchState(TRUE, TRUE, <<>>, 0, st.alpha, st.nodes + r.nodes,
                         st.leaves + r.leaves, st.sides \cup r.sides)
        ELSE LET better == r.val > st.best_value
                 new_move == IF better THEN move ELSE st.best_move
                 new_value == IF better THEN r.val ELSE st.best_value
                 new_alpha == Max(st.alpha, new_value)
             IN  SearchState(FALSE, inf <= new_alpha, new_move, new_value,
                             new_alpha, st.nodes + r.nodes,
                             st.leaves + r.leaves, st.sides \cup r.sides)))

\* the iterations of that loop for moves[lo], ..., moves[hi] in that order
\* from the state st
RECURSIVE SearchLoop(_, _, _, _, _, _, _, _)
SearchLoop(self, h, b, remaining, moves, st, lo, hi) ==
    IF st.done \/ lo > hi THEN st
    ELSE IF lo = hi THEN SearchStep(self, h, b, remaining, moves[lo], st)
    ELSE Bind(SearchLoop(self, h, b, remaining, moves, st,
                         lo, (lo + hi) \div 2), LAMBDA half :
            SearchLoop(self, h, b, remaining, moves, half,
                       (lo + hi) \div 2 + 1, hi))

\* the moves in the order _search_at_depth searches them
RootMoves(self, h, b, moves, remaining) ==
    IF remaining = self.depth \/ Len(moves) > 1
    THEN _order_moves(h, b, moves)
    ELSE Ok(moves)

\* _search_at_depth(board, moves, depth)
_search_at_depth(self, h, b, moves, remaining) ==
    Bind(RootMoves(self, h, b, moves, remaining), LAMBDA ordered :
        IF ordered.exc THEN Searched(TRUE, <<>>, 0, 0, 0, {})
        ELSE Bind(SearchLoop(self, h, b, remaining, ordered.val,
                             SearchState(FALSE, FALSE, <<>>, -inf, -inf, 0, 0,
                                         {}),
                             1, Len(ordered.val)), LAMBDA st :
                Searched(st.exc, st.best_move, st.best_value, st.nodes,
                         st.leaves, st.sides)))

\* moves once best_move, if it is among them, was removed and inserted at
\* the front
BestFirst(moves, best_move) ==
    LET Other(move) == move # best_move
    IN  IF \E k \in 1 .. Len(moves) : moves[k] = best_move
        THEN <<best_move>> \o SelectSeq(moves, Other)
        ELSE moves

\* the loop of _iterative_deepening from current_depth on
RECURSIVE DeepeningLoop(_, _, _, _, _, _, _, _, _, _)
DeepeningLoop(self, h, b, moves, current_depth, best_move, best_value, nodes, leaves, sides) ==
    IF current_depth > self.depth
    THEN Searched(FALSE, best_move, best_value, nodes, leaves, sides)
    ELSE Bind(_search_at_depth(self, h, b, moves, current_depth), LAMBDA r :
            IF r.exc
            THEN Searched(TRUE, <<>>, 0, nodes + r.nodes, leaves + r.leaves,
                          sides \cup r.sides)
            ELSE IF r.val = <<>>
            THEN DeepeningLoop(self, h, b, moves, current_depth + 1, best_move,
                               r.value, nodes + r.nodes, leaves + r.leaves,
                               sides \cup r.sides)
            ELSE DeepeningLoop(self, h, b, BestFirst(moves, r.val),
                               current_depth + 1, r.val, r.value,
                               nodes + r.nodes, leaves + r.leaves,
                               sides \cup r.sides))

\* _iterative_deepening(board, moves)
_iterative_deepening(self, h, b, moves) ==
    DeepeningLoop(self, h, b, moves, 1, <<>>, -inf, 0, 0, {})

\* get_best_move(board) from the test of the turn on
FindBestMove(self, h, b) ==
    IF b.current_turn # self.color THEN Searched(FALSE, <<>>, -inf, 0, 0, {})
    ELSE Bind(get_all_moves(h, b, self.color), LAMBDA moves :
        IF moves.exc THEN Searched(TRUE, <<>>, 0, 0, 0, {})
        ELSE IF moves.val = <<>> THEN Searched(FALSE, <<>>, -inf, 0, 0, {})
        ELSE IF self.depth >= 2
        THEN _iterative_deepening(self, h, b, moves.val)
        ELSE _search_at_depth(self, h, b, moves.val, self.depth))

\* what a call of get_best_move that started with nodes_evaluated at
\* counted leaves behind: nodes is nodes_evaluated after the call
SearchedFrom(counted, self, h, b) ==
    Bind(FindBestMove(self, h, b), LAMBDA r :
        [r EXCEPT !.nodes = counted + r.nodes])

\* get_best_move(board) without self.nodes_evaluated = 0
get_best_move_counting_on(self, h, b) ==
    SearchedFrom(self.nodes_evaluated, self, h, b)

\* get_best_move(board): the move (<<>> for None) or the exception, and
\* nodes_evaluated as the call leaves it
get_best_move(self, h, b) ==
    SearchedFrom(0, self, h, b)

\* a reference of the upper range under the name it had before the call
Restored(ref) == IF ref > HeapSize THEN ref - HeapSize ELSE ref

\* the Board a call was made on, as the call left it (self, with the heap
\* h2), under the names its objects had before the call
SelfAfter(h2, self) ==
    [heap |-> [ref \in Refs |->
                  IF 0 < ref /\ ref <= HeapSize THEN h2[ref + HeapSize]
                  ELSE NoPiece],
     board |->
        [self EXCEPT
            !.board = [row \in 0 .. 7 |->
                          [col \in 0 .. 7 |-> Restored(self.board[row][col])]],
            !.move_history =
                [k \in 1 .. Len(self.move_history) |->
                    [self.move_history[k] EXCEPT
                        ![5] = Restored(self.move_history[k][5])]]]]

\* board as board.make_move_copy(..., promotion_piece=PieceType.QUEEN)
\* leaves it
InputAfterCopy(h, b, move) ==
    LET r == make_move_copy(h, b, move[1], move[2], move[3], move[4], QUEEN)
    IN  SelfAfter(r.heap, r.self)

\* board as the is_legal_move of board.get_all_moves leaves it
InputAfterProbe(h, b, move) ==
    LET c == deepcopy(h, b)
        new_board == _apply_move_directly(c.heap, c.copy, move[1], move[2],
                                          move[3], move[4], NONE)
    IN  SelfAfter(new_board.heap, c.self)

\* the moves get_all_moves(color) puts to is_legal_move: every destination
\* get_moves gives for a piece of color
PseudoLegal(h, b, color) ==
    UNION {LET moves == get_moves(h, b, RowOf(k), ColOf(k))
           IN  {<<RowOf(k), ColOf(k), moves[i][1], moves[i][2]>> :
                   i \in 1 .. Len(moves)} :
              k \in {j \in 0 .. 63 : At(h, b, RowOf(j), ColOf(j)).color = color}}

\* board as get_best_move(board) leaves it.  The calls get_best_move makes
\* on board itself are board.get_all_moves(self.color), which puts moves to
\* is_legal_move, and board.make_move_copy for moves of that list, in
\* _order_moves and _search_at_depth; everything else works on the Boards
\* make_move_copy returned.  The first of these calls that alters board
\* decides what board is found to be.
InputAfterSearch(self, h, b) ==
    LET same == [heap |-> [ref \in Refs |->
                              IF 0 < ref /\ ref <= HeapSize THEN h[ref]
                              ELSE NoPiece],
                 board |-> b]
    IN  IF b.current_turn # self.color THEN same
        ELSE Bind(get_all_moves(h, b, self.color), LAMBDA all :
             Bind({InputAfterProbe(h, b, move) :
                      move \in PseudoLegal(h, b, self.color)}
                  \cup (IF all.exc THEN {}
                        ELSE {InputAfterCopy(h, b, all.val[i]) :
                                 i \in 1 .. Len(all.val)}), LAMBDA left :
                IF left \subseteq {same} THEN same
                ELSE CHOOSE s \in left : s # same))

---------------------------------------------------------------------------
(* analysis/evaluation_history.py: EvaluationHistory *)

\* EvaluationHistory(): an empty history, min_eval and max_eval 0
EvaluationHistory == [history |-> <<>>, min_eval |-> 0, max_eval |-> 0]

\* add_evaluation(move_number, evaluation, color): the object afterwards.
\* The entry is appended first and the list tested for emptiness after it
add_evaluation(self, move_number, evaluation, color) ==
    LET history == Append(self.history, <<move_number, evaluation, color>>)
    IN  IF history = <<>>
        THEN [history |-> history, min_eval |-> evaluation,
              max_eval |-> evaluation]
        ELSE [history |-> history,
              min_eval |-> Min(self.min_eval, evaluation),
              max_eval |-> Max(self.max_eval, evaluation)]

\* get_evaluation_range()
get_evaluation_range(self) ==
    IF self.history = <<>> THEN <<0, 0>>
    ELSE <<self.min_eval, self.max_eval>>

---------------------------------------------------------------------------
(* pygame_gui.py: ChessPygameGUI *)

\* the colour of self.ai = ChessAI(depth=ai_depth, color=Color.BLACK)
AIColor == BLACK

\* the default of ai_depth
AIDepth == 1

\* ChessPygameGUI(): nothing selected (<<>> for None); the AI is thinking
\* and the timer is armed if the new Board's turn is the AI's; the event
\* loop of run() is running
ChessPygameGUI ==
    [selected_square |-> <<>>, valid_moves |-> <<>>,
     ai_thinking |-> InitialBoard.current_turn = AIColor,
     timer |-> InitialBoard.current_turn = AIColor,
     running |-> TRUE]

\* how a handler leaves the object and its Board, and whether an exception
\* ended it
Handled(self, h, b, exc) == [gui |-> self, heap |-> h, board |-> b, exc |-> exc]

\* check_game_over(): the three queries in turn, until one is true or
\* raises
check_game_over(h, b) ==
    Bind(is_checkmate(h, b, WHITE), LAMBDA white :
        IF white.exc THEN Raised(FALSE)
        ELSE IF white.val THEN Ok(TRUE)
        ELSE Bind(is_checkmate(h, b, BLACK), LAMBDA black :
            IF black.exc THEN Raised(FALSE)
            ELSE IF black.val THEN Ok(TRUE)
            ELSE is_stalemate(h, b, b.current_turn)))

\* the destinations of the moves of all that start on (row, col)
MovesFrom(all, row, col) ==
    LET From(move) == move[1] = row /\ move[2] = col
        chosen == SelectSeq(all, From)
    IN  [k \in 1 .. Len(chosen) |-> <<chosen[k][3], chosen[k][4]>>]

\* handle_click, selecting the piece on (row, col) if it is of the side to
\* move: selected_square is assigned before get_all_moves is called
SelectPiece(self, h, b, row, col) ==
    IF b.board[row][col] # 0 /\ At(h, b, row, col).color = b.current_turn
    THEN Bind(get_all_moves(h, b, At(h, b, row, col).color), LAMBDA all :
            IF all.exc
            THEN Handled([self EXCEPT !.selected_square = <<row, col>>],
                         h, b, TRUE)
            ELSE Handled([self EXCEPT !.selected_square = <<row, col>>,
                                      !.valid_moves = MovesFrom(all.val, row, col)],
                         h, b, FALSE))
    ELSE Handled(self, h, b, FALSE)

\* handle_click(pos) for a position on the square pos of the board, or off
\* the board (<<>>)
handle_click(self, h, b, pos) ==
    IF b.current_turn = AIColor \/ self.ai_thinking THEN Handled(self, h, b, FALSE)
    ELSE IF pos = <<>> THEN Handled(self, h, b, FALSE)
    ELSE LET row == pos[1]
             col == pos[2]
             cleared == [self EXCEPT !.selected_square = <<>>,
                                     !.valid_moves = <<>>]
         IN  IF self.selected_square = <<>>
             THEN SelectPiece(self, h, b, row, col)
             ELSE IF ~InList(row, col, self.valid_moves)
             THEN SelectPiece(cleared, h, b, row, col)
             ELSE Bind(make_move(h, b, self.selected_square[1],
                                 self.selected_square[2], row, col, NONE),
                       LAMBDA moved :
                    IF moved.ret = TypeError THEN Handled(self, h, b, TRUE)
                    ELSE IF moved.ret = RetFalse THEN Handled(cleared, h, b, FALSE)
                    ELSE IF check_game_over(moved.heap, moved.board).exc
                    THEN Handled(cleared, moved.heap, moved.board, TRUE)
                    ELSE IF moved.board.current_turn = AIColor
                    THEN Handled([cleared EXCEPT !.ai_thinking = TRUE,
                                                 !.timer = TRUE],
                                 moved.heap, moved.board, FALSE)
                    ELSE Handled(cleared, moved.heap, moved.board, FALSE))

\* make_ai_move(), called on a timer event
make_ai_move(self, h, b) ==
    IF b.current_turn # AIColor \/ ~self.ai_thinking THEN Handled(self, h, b, FALSE)
    ELSE Bind(get_best_move(ChessAI(AIDepth, AIColor), h, b), LAMBDA move :
        IF move.exc THEN Handled(self, h, b, TRUE)
        ELSE Bind(IF move.val = <<>> THEN [ret |-> RetFalse, heap |-> h, board |-> b]
                  ELSE make_move(h, b, move.val[1], move.val[2], move.val[3],
                                 move.val[4], NONE), LAMBDA moved :
            IF moved.ret = TypeError THEN Handled(self, h, b, TRUE)
            ELSE IF check_game_over(moved.heap, moved.board).exc
            THEN Handled(self, moved.heap, moved.board, TRUE)
            ELSE Handled([self EXCEPT !.ai_thinking = FALSE, !.timer = FALSE],
                         moved.heap, moved.board, FALSE)))

---------------------------------------------------------------------------
(* The callers: the moves and arguments the calls are made with *)

\* moves a caller passes when get_moves offers them:
\* e2-e4, e4-e5, Qd1-h5, Qh5xe8, Ng1-f3, Bf1-c4 and
\* e7-e5, f7-f6, d7-d5, a7-a6, Qd8xe8
OfferedMoves ==
    {<<6, 4, 4, 4>>, <<4, 4, 3, 4>>, <<7, 3, 3, 7>>, <<3, 7, 0, 4>>,
     <<7, 6, 5, 5>>, <<7, 5, 4, 2>>,
     <<1, 4, 3, 4>>, <<1, 5, 2, 5>>, <<1, 3, 3, 3>>, <<1, 0, 2, 0>>,
     <<0, 3, 0, 4>>}

\* moves a caller passes whether or not get_moves offers them: the castling
\* move e1-g1 and the en-passant capture e5xd6
UnofferedMoves == {<<7, 4, 7, 6>>, <<3, 4, 2, 3>>}

\* further arguments of make_move: coordinates off the board, an empty
\* source square, and destinations that get_moves does not offer
OtherArguments ==
    {<<-1, 4, 4, 4>>, <<6, 8, 4, 4>>, <<6, 4, 8, 4>>, <<6, 4, 4, -1>>,
     <<4, 0, 3, 0>>, <<6, 4, 3, 4>>, <<7, 0, 5, 0>>, <<0, 4, 1, 4>>}

\* captures by a pawn that take it to the farthest rank: b2xa1, b2xc1,
\* g2xh1 and d7xe8
PromotingMoves == {<<6, 1, 7, 0>>, <<6, 1, 7, 2>>, <<6, 6, 7, 7>>, <<1, 3, 0, 4>>}

\* the move a5-b5 of a rook standing on column 0 away from its home rank
RookMoves == {<<3, 0, 3, 1>>}

MoveArguments ==
    OfferedMoves \cup UnofferedMoves \cup OtherArguments \cup PromotingMoves
        \cup RookMoves

\* moves a caller passes to make_move_copy, which makes them unvalidated:
\* e2 to e8, a7 to b2, h7 to g2, the castling move e1-g1, h8 to a5 and
\* h2-h4
RawMoves ==
    {<<6, 4, 0, 4>>, <<1, 0, 6, 1>>, <<1, 7, 6, 6>>, <<7, 4, 7, 6>>,
     <<0, 7, 3, 0>>, <<6, 7, 4, 7>>}

\* promotion_piece: None (the default) or a PieceType
PromotionArguments == {NONE, KNIGHT}

\* the depths an engine is configured with
SearchDepths == {1, 2, 3}

\* the least depth get_best_move deepens iteratively to
DeepeningDepths == {2}

\* unvalidated moves that take the kings off the board, after which
\* is_in_check scans no piece: e1 to e8 by the white king and d8 to e8 by
\* the black queen; with them d2-d4 and the black queen from d8 to d5, a5,
\* h4, d6, b6, f6, g5 and d2
KingTakingMoves ==
    {<<7, 4, 0, 4>>, <<0, 3, 0, 4>>, <<6, 3, 4, 3>>,
     <<0, 3, 3, 3>>, <<0, 3, 3, 0>>, <<0, 3, 4, 7>>, <<0, 3, 2, 3>>,
     <<0, 3, 2, 1>>, <<0, 3, 2, 5>>, <<0, 3, 3, 6>>, <<0, 3, 6, 3>>}

\* where a click lands: on a square of the board, or off the board (<<>>)
Clicks == {<<>>} \cup ((0 .. 7) \X (0 .. 7))

\* evaluations passed to add_evaluation: scores from White's side, for
\* either side ahead and for a level game
Evaluations == {-320, -100, 0, 100, 320}

---------------------------------------------------------------------------
(* The state machine *)

Called(op, color, ret, count) ==
    [op |-> op, color |-> color, ret |-> ret, count |-> count]

\* how a call that returns a bool ended
BoolRet(r) == IF r.exc THEN TypeError ELSE IF r.val THEN RetTrue ELSE RetFalse

\* board = Board()
Init ==
    /\ heap = InitialHeap
    /\ board = InitialBoard
    /\ orig = NoBoard
    /\ last = Called("Board", NONE, "Board", 0)
    /\ depth = 0
    /\ nodes_evaluated = [engine \in SearchDepths \X Color |-> 0]
    /\ eval_history = EvaluationHistory
    /\ gui = ChessPygameGUI

\* new_board = board.make_move_copy(...), and the caller goes on with
\* new_board, as the search does along a line
MakeMoveCopy ==
    /\ depth < MaxPly
    /\ FreshRef(heap) # 0
    /\ \E m \in OfferedMoves \cup UnofferedMoves :
          /\ board.board[m[1]][m[2]] # 0
          /\ At(heap, board, m[1], m[2]).color = board.current_turn
          /\ \/ m \in UnofferedMoves
             \/ InList(m[3], m[4], get_moves(heap, board, m[1], m[2]))
          /\ \E promotion_piece \in PromotionArguments :
                LET r == make_move_copy(heap, board, m[1], m[2], m[3], m[4],
                                        promotion_piece)
                IN  /\ board' = r.new_board
                    /\ orig' = r.self
                    /\ heap' = Collect(r.heap, r.new_board, r.self)
    /\ last' = Called("make_move_copy", NONE, "Board", 0)
    /\ depth' = depth + 1
    /\ UNCHANGED <<nodes_evaluated, eval_history, gui>>

\* new_board = board.make_move_copy(...) with a move of the side to move
\* that nothing validated
MakeMoveCopyRaw ==
    /\ depth < MaxRawPly
    /\ FreshRef(heap) # 0
    /\ \E m \in RawMoves :
          /\ board.board[m[1]][m[2]] # 0
          /\ At(heap, board, m[1], m[2]).color = board.current_turn
          /\ \E promotion_piece \in PromotionArguments :
                LET r == make_move_copy(heap, board, m[1], m[2], m[3], m[4],
                                        promotion_piece)
                IN  /\ board' = r.new_board
                    /\ orig' = r.self
                    /\ heap' = Collect(r.heap, r.new_board, r.self)
    /\ last' = Called("make_move_copy", NONE, "Board", 0)
    /\ depth' = depth + 1
    /\ UNCHANGED <<nodes_evaluated, eval_history, gui>>

\* new_board = board.make_move_copy(...) with an unvalidated move of the
\* side to move from the lines that take the kings
MakeMoveCopyTakingKings ==
    /\ depth < MaxRawPly
    /\ FreshRef(heap) # 0
    /\ \E m \in KingTakingMoves :
          /\ board.board[m[1]][m[2]] # 0
          /\ At(heap, board, m[1], m[2]).color = board.current_turn
          /\ \E promotion_piece \in PromotionArguments :
                LET r == make_move_copy(heap, board, m[1], m[2], m[3], m[4],
                                        promotion_piece)
                IN  /\ board' = r.new_board
                    /\ orig' = r.self
                    /\ heap' = Collect(r.heap, r.new_board, r.self)
    /\ last' = Called("make_move_copy", NONE, "Board", 0)
    /\ depth' = depth + 1
    /\ UNCHANGED <<nodes_evaluated, eval_history, gui>>

\* board.make_move(...)
MakeMove ==
    /\ FreshRef(heap) # 0
    /\ \E m \in MoveArguments, promotion_piece \in PromotionArguments :
          LET r == make_move(heap, board, m[1], m[2], m[3], m[4], promotion_piece)
          IN  /\ board' = r.board
              /\ heap' = IF r.ret = RetTrue
                          THEN Collect(r.heap, r.board, orig)
                          ELSE heap
              /\ last' = Called("make_move", NONE, r.ret, 0)
    /\ UNCHANGED <<orig, depth, nodes_evaluated, eval_history, gui>>

\* board.get_all_moves(color)
GetAllMoves ==
    \E color \in Color :
        /\ FreshRef(heap) # 0
        /\ LET r == get_all_moves(heap, board, color)
           IN  last' = Called("get_all_moves", color,
                              IF r.exc THEN TypeError ELSE "list", Len(r.val))
        /\ UNCHANGED <<heap, board, orig, depth, nodes_evaluated, eval_history, gui>>

\* board.is_in_check(color)
IsInCheck ==
    \E color \in Color :
        /\ last' = Called("is_in_check", color,
                          BoolRet(is_in_check(heap, board, color)), 0)
        /\ UNCHANGED <<heap, board, orig, depth, nodes_evaluated, eval_history, gui>>

\* board.is_checkmate(color)
IsCheckmate ==
    \E color \in Color :
        /\ FreshRef(heap) # 0
        /\ last' = Called("is_checkmate", color,
                          BoolRet(is_checkmate(heap, board, color)), 0)
        /\ UNCHANGED <<heap, board, orig, depth, nodes_evaluated, eval_history, gui>>

\* board.is_stalemate(color)
IsStalemate ==
    \E color \in Color :
        /\ FreshRef(heap) # 0
        /\ last' = Called("is_stalemate", color,
                          BoolRet(is_stalemate(heap, board, color)), 0)
        /\ UNCHANGED <<heap, board, orig, depth, nodes_evaluated, eval_history, gui>>

\* board.can_castle_kingside(color)
CanCastleKingside ==
    \E color \in Color :
        /\ last' = Called("can_castle_kingside", color,
                          BoolRet(can_castle_kingside(heap, board, color)), 0)
        /\ UNCHANGED <<heap, board, orig, depth, nodes_evaluated, eval_history, gui>>

\* board.can_castle_queenside(color)
CanCastleQueenside ==
    \E color \in Color :
        /\ last' = Called("can_castle_queenside", color,
                          BoolRet(can_castle_queenside(heap, board, color)), 0)
        /\ UNCHANGED <<heap, board, orig, depth, nodes_evaluated, eval_history, gui>>

\* the ChessAI(configured_depth, color) object with what it counted so far
Engine(configured_depth, color) ==
    [ChessAI(configured_depth, color) EXCEPT
        !.nodes_evaluated = nodes_evaluated[<<configured_depth, color>>]]

\* ai.get_best_move(board), then ai.get_nodes_evaluated(), for the object
\* ai = ChessAI(configured_depth, color) of any depth
GetBestMove ==
    \E color \in Color, configured_depth \in SearchDepths :
        /\ FreshRef(heap) # 0
        /\ \E r \in {get_best_move(Engine(configured_depth, color), heap, board)} :
              /\ last' = Called("get_best_move", color,
                                IF r.exc THEN TypeError
                                ELSE IF r.val = <<>> THEN "None" ELSE "move",
                                r.nodes)
              /\ nodes_evaluated' =
                    [nodes_evaluated EXCEPT ![<<configured_depth, color>>] = r.nodes]
        /\ \E input \in {InputAfterSearch(Engine(configured_depth, color),
                                           heap, board)} :
              /\ board' = input.board
              /\ heap' = [ref \in Refs |->
                             IF 0 < ref /\ ref <= HeapSize
                             THEN input.heap[ref] ELSE heap[ref]]
        /\ UNCHANGED <<orig, depth, eval_history, gui>>

\* the same calls for an object that deepens iteratively
GetBestMoveDeepening ==
    \E color \in Color, configured_depth \in DeepeningDepths :
        /\ FreshRef(heap) # 0
        /\ \E r \in {get_best_move(Engine(configured_depth, color), heap, board)} :
              /\ last' = Called("get_best_move", color,
                                IF r.exc THEN TypeError
                                ELSE IF r.val = <<>> THEN "None" ELSE "move",
                                r.nodes)
              /\ nodes_evaluated' =
                    [nodes_evaluated EXCEPT ![<<configured_depth, color>>] = r.nodes]
        /\ \E input \in {InputAfterSearch(Engine(configured_depth, color),
                                           heap, board)} :
              /\ board' = input.board
              /\ heap' = [ref \in Refs |->
                             IF 0 < ref /\ ref <= HeapSize
                             THEN input.heap[ref] ELSE heap[ref]]
        /\ UNCHANGED <<orig, depth, eval_history, gui>>

\* eval_history.add_evaluation(move_number, evaluation, color) with the
\* number of the move, as gui.py calls it after each move
AddEvaluation ==
    \E evaluation \in Evaluations, color \in Color :
        /\ Len(eval_history.history) < MaxEvaluations
        /\ eval_history' = add_evaluation(eval_history,
                                          Len(eval_history.history),
                                          evaluation, color)
        /\ UNCHANGED <<heap, board, orig, last, depth, nodes_evaluated, gui>>

\* a left click on a square of the board or off it, taken from the event
\* queue by run(); an exception out of the handler ends the loop
HandleClick ==
    /\ gui.running
    /\ FreshRef(heap) # 0
    /\ \E pos \in Clicks :
          \E r \in {handle_click(gui, heap, board, pos)} :
              /\ gui' = [r.gui EXCEPT !.running = ~r.exc]
              /\ board' = r.board
              /\ heap' = IF r.board # board THEN Collect(r.heap, r.board, orig)
                          ELSE heap
              /\ last' = Called("handle_click", NONE,
                                IF r.exc THEN TypeError ELSE "None", 0)
    /\ UNCHANGED <<orig, depth, nodes_evaluated, eval_history>>

\* a USEREVENT of the timer, posted while the timer is armed
MakeAIMove ==
    /\ gui.running
    /\ gui.timer
    /\ FreshRef(heap) # 0
    /\ \E r \in {make_ai_move(gui, heap, board)} :
          /\ gui' = [r.gui EXCEPT !.running = ~r.exc]
          /\ board' = r.board
          /\ heap' = IF r.board # board THEN Collect(r.heap, r.board, orig)
                      ELSE heap
          /\ last' = Called("make_ai_move", AIColor,
                            IF r.exc THEN TypeError ELSE "None", 0)
    /\ UNCHANGED <<orig, depth, nodes_evaluated, eval_history>>

\* the calls that change a Board or make one
Next ==
    \/ MakeMoveCopy
    \/ MakeMove

Spec == Init /\ [][Next]_vars

\* the engine asked for its move on the Boards along the lines of
\* make_move_copy
NextSearch ==
    \/ MakeMoveCopy
    \/ GetBestMove

SpecSearch == Init /\ [][NextSearch]_vars

\* an engine of depth 2 asked for its move, and for its count of nodes, on
\* Boards with and without kings
NextCount ==
    \/ MakeMoveCopyTakingKings
    \/ GetBestMoveDeepening

SpecCount == Init /\ [][NextCount]_vars

\* the calls that change a Board or make one, with the moves make_move_copy
\* makes unvalidated
NextRaw ==
    \/ MakeMoveCopyRaw
    \/ MakeMove

SpecRaw == Init /\ [][NextRaw]_vars

\* the queries, asked of the Boards along the lines of make_move_copy
NextQuery ==
    \/ MakeMoveCopy
    \/ GetAllMoves
    \/ IsInCheck
    \/ IsCheckmate
    \/ IsStalemate
    \/ CanCastleKingside
    \/ CanCastleQueenside

SpecQuery == Init /\ [][NextQuery]_vars

\* the events of the pygame front end
NextGUI ==
    \/ HandleClick
    \/ MakeAIMove

SpecGUI == Init /\ [][NextGUI]_vars

\* evaluations added to one EvaluationHistory
NextHistory ==
    \/ AddEvaluation

SpecHistory == Init /\ [][NextHistory]_vars

---------------------------------------------------------------------------
(* What the statements below mean by attack, check, a legal move and *)
(* permitted castling, said with the move generator of pieces.py     *)

\* some piece of attacker_color has (row, col) among its destinations
Attacked(h, b, row, col, attacker_color) ==
    \E r \in 0 .. 7, c \in 0 .. 7 :
        /\ b.board[r][c] # 0
        /\ At(h, b, r, c).color = attacker_color
        /\ InList(row, col, get_moves(h, b, r, c))

\* the king of color stands on a square an opposing piece attacks
KingInCheck(h, b, color) ==
    LET king_pos == find_king(h, b, color)
    IN  /\ king_pos # <<>>
        /\ Attacked(h, b, king_pos[1], king_pos[2], opponent(color))

\* the move, once applied, leaves the mover's own king in check
LeavesKingInCheck(h, b, from_row, from_col, to_row, to_col) ==
    LET after == _apply_move_directly(h, b, from_row, from_col,
                                      to_row, to_col, NONE)
    IN  KingInCheck(after.heap, after.board, At(h, b, from_row, from_col).color)

\* the (from, to) pairs of color that are pseudo-legal and keep its king safe
LegalMoves(h, b, color) ==
    UNION {
        IF b.board[r][c] # 0 /\ At(h, b, r, c).color = color
        THEN LET piece_moves == get_moves(h, b, r, c)
             IN  {<<r, c, piece_moves[i][1], piece_moves[i][2]>> :
                     i \in {j \in 1 .. Len(piece_moves) :
                              ~LeavesKingInCheck(h, b, r, c, piece_moves[j][1],
                                                 piece_moves[j][2])}}
        ELSE {}
        : r \in 0 .. 7, c \in 0 .. 7}

Range(list) == {list[i] : i \in 1 .. Len(list)}

\* the conditions of castling: the right is held, king and rook stand
\* unmoved on their home squares, the squares between them are empty, and
\* no square the king starts on, crosses or lands on is attacked
CastlingPermitted(h, b, color, right, rook_col, empty_cols, safe_cols) ==
    LET row == IF color = WHITE THEN 7 ELSE 0
        king == At(h, b, row, 4)
        rook == At(h, b, row, rook_col)
    IN  /\ b.castling_rights[color][right]
        /\ king.type = KING /\ king.color = color /\ ~king.has_moved
        /\ rook.type = ROOK /\ rook.color = color /\ ~rook.has_moved
        /\ \A col \in empty_cols : b.board[row][col] = 0
        /\ \A col \in safe_cols : ~Attacked(h, b, row, col, opponent(color))

KingsidePermitted(h, b, color) ==
    CastlingPermitted(h, b, color, 1, 7, {5, 6}, {4, 5, 6})

QueensidePermitted(h, b, color) ==
    CastlingPermitted(h, b, color, 2, 0, {1, 2, 3}, {4, 3, 2})

---------------------------------------------------------------------------
(* C1 *)

\* C1: on the initial position get_all_moves(WHITE) returns exactly 20
\* moves without duplicates, 16 of them pawn moves and 4 knight moves.
C1_InitialPositionHasTwentyMoves ==
    (last.op = "get_all_moves" /\ last.color = WHITE /\ depth = 0) =>
        LET r == get_all_moves(heap, board, WHITE)
            OfType(t) == {i \in 1 .. Len(r.val) :
                            At(heap, board, r.val[i][1], r.val[i][2]).type = t}
        IN  /\ last.ret = "list"
            /\ last.count = 20
            /\ Cardinality(Range(r.val)) = 20
            /\ Cardinality(OfType(PAWN)) = 16
            /\ Cardinality(OfType(KNIGHT)) = 4

---------------------------------------------------------------------------
(* C2 *)

\* C2: get_all_moves(color) returns exactly the (from, to) pairs where from
\* holds a piece of color, to is one of its pseudo-legal destinations, and
\* the king of color is not in check once the move is applied.
C2_GetAllMovesIsTheLegalSet ==
    last.op = "get_all_moves" =>
        /\ last.ret = "list"
        /\ Range(get_all_moves(heap, board, last.color).val)
               = LegalMoves(heap, board, last.color)

---------------------------------------------------------------------------
(* C3 *)

\* C3: make_move_copy leaves the Board it is called on as it was (the grid,
\* each piece's has_moved, the turn, the history, the castling rights and
\* the en passant target), and a later make_move on the Board it returned
\* leaves that first Board as it was too.
C3_MakeMoveCopyLeavesItsBoardAlone ==
    [][/\ last'.op = "make_move_copy" =>
              View(heap', orig') = View(heap, board)
       /\ last'.op = "make_move" =>
              View(heap', orig') = View(heap, orig)]_vars

\* make_move_copy was called on a Board, the move was made on the Board it
\* returned, whose moved piece is marked has_moved while its original on
\* the first Board is not, and make_move has since changed the returned
\* Board in place
C3_ReturnedBoardMovedOn ==
    /\ last.op = "make_move" /\ last.ret = RetTrue
    /\ orig # NoBoard
    /\ View(heap, orig) # View(heap, board)
    /\ \E ref \in 1 .. HeapSize :
          /\ heap[ref].has_moved
          /\ heap[Renamed(ref)].type = heap[ref].type
          /\ ~heap[Renamed(ref)].has_moved

---------------------------------------------------------------------------
(* C4 *)

\* the reasons for make_move to fail: coordinates off the board, an empty
\* source, a piece of the side not to move, a destination that is not
\* pseudo-legal, or a move that leaves the mover's king in check
MustFail(h, b, from_row, from_col, to_row, to_col) ==
    \/ ~is_valid_position(from_row, from_col)
    \/ ~is_valid_position(to_row, to_col)
    \/ b.board[from_row][from_col] = 0
    \/ At(h, b, from_row, from_col).color # b.current_turn
    \/ ~InList(to_row, to_col, get_moves(h, b, from_row, from_col))
    \/ LeavesKingInCheck(h, b, from_row, from_col, to_row, to_col)

\* C4: a make_move that fails for any of these reasons returns False and
\* leaves the grid, the turn, the history, the castling rights and the en
\* passant target unchanged.
C4_FailedMakeMoveReturnsFalse ==
    \A m \in MoveArguments, promotion_piece \in PromotionArguments :
        MustFail(heap, board, m[1], m[2], m[3], m[4]) =>
            LET r == make_move(heap, board, m[1], m[2], m[3], m[4],
                               promotion_piece)
            IN  /\ r.ret = RetFalse
                /\ View(r.heap, r.board) = View(heap, board)

---------------------------------------------------------------------------
(* C5 *)

\* C5: make_move never raises: every call returns True or False.
C5_MakeMoveNeverRaises ==
    last.op = "make_move" => last.ret \in {RetTrue, RetFalse}

---------------------------------------------------------------------------
(* C6 *)

\* C6: make_move(from, to) returns True exactly when (from, to) is a member
\* of the list get_all_moves(current_turn) returns.
C6_MakeMoveAcceptsExactlyGetAllMoves ==
    LET all == get_all_moves(heap, board, board.current_turn)
    IN  /\ ~all.exc
        /\ \A m \in MoveArguments, promotion_piece \in PromotionArguments :
              (make_move(heap, board, m[1], m[2], m[3], m[4],
                         promotion_piece).ret = RetTrue)
                  <=> (m \in Range(all.val))

---------------------------------------------------------------------------
(* C7 *)

\* the last move made was a pawn's double step that landed on (row, col):
\* an opposing pawn stands there and en_passant_target, which a Board keeps
\* for the one ply after a double step, names the square it passed over
JustDoubleStepped(h, b, row, col) ==
    LET direction == IF b.current_turn = WHITE THEN -1 ELSE 1
    IN  /\ b.en_passant_target = <<row + direction, col>>
        /\ At(h, b, row, col).type = PAWN
        /\ At(h, b, row, col).color = opponent(b.current_turn)

\* C7: a pawn of the side to move may capture onto the empty diagonal square
\* behind an opposing pawn exactly when that pawn, on the same row and the
\* adjacent file, has just double-stepped and the capture does not expose
\* the mover's king: then, and on no other ply, the move is in
\* get_all_moves(current_turn) and make_move accepts it.
C7_EnPassantOnTheFollowingPly ==
    \A row \in 0 .. 7, col \in 0 .. 7, dc \in {-1, 1} :
        LET direction == IF board.current_turn = WHITE THEN -1 ELSE 1
            to_row == row + direction
            to_col == col + dc
            all == get_all_moves(heap, board, board.current_turn)
        IN  (/\ At(heap, board, row, col).type = PAWN
             /\ At(heap, board, row, col).color = board.current_turn
             /\ is_valid_position(to_row, to_col)
             /\ board.board[to_row][to_col] = 0)
            => ((/\ make_move(heap, board, row, col, to_row, to_col,
                              NONE).ret = RetTrue
                 /\ ~all.exc
                 /\ <<row, col, to_row, to_col>> \in Range(all.val))
                <=> (/\ JustDoubleStepped(heap, board, row, to_col)
                     /\ ~LeavesKingInCheck(heap, board, row, col,
                                           to_row, to_col)))

---------------------------------------------------------------------------
(* C8 *)

\* C8: can_castle_kingside(color) and can_castle_queenside(color) return
\* False when the right is lost, the king or the rook is not unmoved on its
\* home square, a square between them is occupied, or the king's start,
\* transit or destination square is attacked, and True otherwise.
C8_CanCastleTellsWhetherCastlingIsPermitted ==
    /\ last.op = "can_castle_kingside" =>
          last.ret = IF KingsidePermitted(heap, board, last.color)
                     THEN RetTrue ELSE RetFalse
    /\ last.op = "can_castle_queenside" =>
          last.ret = IF QueensidePermitted(heap, board, last.color)
                     THEN RetTrue ELSE RetFalse

---------------------------------------------------------------------------
(* C9 *)

\* the king of the side to move, from its home square, is offered the
\* square two files away in to_col, and make_move accepts the move
CastlingMoveOffered(h, b, to_col) ==
    LET row == IF b.current_turn = WHITE THEN 7 ELSE 0
    IN  /\ InList(row, to_col, get_moves(h, b, row, 4))
        /\ make_move(h, b, row, 4, row, to_col, NONE).ret = RetTrue

\* C9: for the side to move, the king's move two squares toward the rook is
\* among the king's generated destinations and accepted by make_move
\* exactly when castling on that side is permitted.
C9_CastlingOfferedWhenPermitted ==
    LET row == IF board.current_turn = WHITE THEN 7 ELSE 0
        king == At(heap, board, row, 4)
    IN  (king.type = KING /\ king.color = board.current_turn) =>
            /\ CastlingMoveOffered(heap, board, 6)
                   <=> KingsidePermitted(heap, board, board.current_turn)
            /\ CastlingMoveOffered(heap, board, 2)
                   <=> QueensidePermitted(heap, board, board.current_turn)

---------------------------------------------------------------------------
(* C10 *)

\* C10: is_checkmate(color) returns True exactly when is_in_check(color)
\* returns True and get_all_moves(color) returns an empty list, and
\* returns False otherwise.
C10_CheckmateIsCheckWithoutMoves ==
    last.op = "is_checkmate" =>
        LET in_check == is_in_check(heap, board, last.color)
            all == get_all_moves(heap, board, last.color)
        IN  /\ last.ret \in {RetTrue, RetFalse}
            /\ last.ret = RetTrue
                   <=> (/\ ~in_check.exc /\ in_check.val
                        /\ ~all.exc /\ all.val = <<>>)

---------------------------------------------------------------------------
(* C11 *)

\* C11: is_stalemate(color) returns True exactly when is_in_check(color)
\* returns False and get_all_moves(color) returns an empty list, and False
\* otherwise; so is_checkmate(color) and is_stalemate(color) are never both
\* True.
C11_StalemateIsNoCheckWithoutMoves ==
    last.op = "is_stalemate" =>
        LET in_check == is_in_check(heap, board, last.color)
            all == get_all_moves(heap, board, last.color)
            mate == is_checkmate(heap, board, last.color)
        IN  /\ last.ret \in {RetTrue, RetFalse}
            /\ last.ret = RetTrue
                   <=> (/\ ~in_check.exc /\ ~in_check.val
                        /\ ~all.exc /\ all.val = <<>>)
            /\ ~(last.ret = RetTrue /\ ~mate.exc /\ mate.val)

---------------------------------------------------------------------------
(* C12 *)

\* minimax without pruning, to the same depth, with the same leaf
\* evaluator and the same values for checkmate and stalemate
RECURSIVE PlainMinimax(_, _, _, _, _)
PlainMinimax(self, h, b, remaining, maximizing) ==
    LET current_color == IF maximizing THEN self.color ELSE opponent(self.color)
        moves == get_all_moves(h, b, current_color)
        check == is_in_check(h, b, current_color)
    IN  IF remaining = 0 THEN evaluate(h, b, self.color)
        ELSE IF moves.exc THEN Raised(0)
        ELSE IF moves.val = <<>>
        THEN IF check.exc THEN Raised(0)
             ELSE IF check.val THEN Ok(IF maximizing THEN -inf ELSE inf)
             ELSE Ok(0)
        ELSE Bind({LET new_board == Child(h, b, move)
                   IN  PlainMinimax(self, new_board.heap, new_board.board,
                                    remaining - 1, ~maximizing) :
                      move \in Range(moves.val)}, LAMBDA values :
                IF \E v \in values : v.exc THEN Raised(0)
                ELSE IF maximizing
                THEN Ok(CHOOSE x \in {v.val : v \in values} :
                            \A v \in values : v.val <= x)
                ELSE Ok(CHOOSE x \in {v.val : v \in values} :
                            \A v \in values : v.val >= x))

\* C12: for every position and depth, the value _minimax computes for the
\* root from the window (-inf, +inf) is the value minimax without pruning
\* computes to that depth.
C12_AlphaBetaEqualsMinimax ==
    \A configured_depth \in SearchDepths :
        LET self == ChessAI(configured_depth, board.current_turn)
            pruned == _minimax(self, heap, board, configured_depth,
                               -inf, inf, TRUE)
            plain == PlainMinimax(self, heap, board, configured_depth, TRUE)
        IN  /\ ~pruned.exc
            /\ ~plain.exc
            /\ pruned.val = plain.val

---------------------------------------------------------------------------
(* C13 *)

\* C13: get_best_move returns None exactly when it is not the engine's turn
\* or the engine has no legal moves, and otherwise, at every configured
\* depth, a move of get_all_moves(engine color) on that Board.
C13_BestMoveIsALegalMoveOrNone ==
    last.op = "get_best_move" =>
        \A configured_depth \in SearchDepths :
            LET r == get_best_move(ChessAI(configured_depth, last.color),
                                   heap, board)
                all == get_all_moves(heap, board, last.color)
            IN  /\ ~r.exc
                /\ (r.val = <<>>) <=>
                       \/ board.current_turn # last.color
                       \/ ~all.exc /\ all.val = <<>>
                /\ r.val # <<>> => ~all.exc /\ r.val \in Range(all.val)

---------------------------------------------------------------------------
(* C14 *)

\* the grid after e2-e4 from the initial position
AfterE2E4 ==
    LET r == make_move_copy(InitialHeap, InitialBoard, 6, 4, 4, 4, NONE)
    IN  View(r.heap, r.new_board).board

\* C14: with the engine to move and a legal move to make,
\* get_nodes_evaluated() after get_best_move at depth 3 is at least what it
\* is after get_best_move at depth 1, and more on the position after e2-e4
\* with Black to move.
C14_DeeperSearchVisitsNoFewerNodes ==
    \A color \in Color :
        (board.current_turn = color /\ LegalMoves(heap, board, color) # {}) =>
            LET shallow == get_best_move(ChessAI(1, color), heap, board)
                deep == get_best_move(ChessAI(3, color), heap, board)
            IN  /\ deep.nodes >= shallow.nodes
                /\ (color = BLACK /\ View(heap, board).board = AfterE2E4)
                       => deep.nodes > shallow.nodes

---------------------------------------------------------------------------
(* C15 *)

\* C15: on the initial position make_move(6, 4, 4, 4) returns True; then
\* Black is to move, is_in_check(BLACK) is False and get_all_moves(BLACK)
\* has 20 entries.
C15_E2E4ThenBlackHasTwentyMoves ==
    depth = 0 =>
        LET r == make_move(heap, board, 6, 4, 4, 4, NONE)
            check == is_in_check(r.heap, r.board, BLACK)
            all == get_all_moves(r.heap, r.board, BLACK)
        IN  /\ r.ret = RetTrue
            /\ r.board.current_turn = BLACK
            /\ ~check.exc /\ ~check.val
            /\ ~all.exc /\ Len(all.val) = 20

---------------------------------------------------------------------------
(* C16 *)

\* C16: a castling right that is False is never True again, whatever call
\* is made next and however it ends.
C16_CastlingRightsAreMonotone ==
    [][\A color \in Color, side \in 1 .. 2 :
          ~board.castling_rights[color][side]
              => ~board'.castling_rights[color][side]]_vars

\* a successful make_move on a Board that has lost a right, the move
\* capturing a rook on its corner
C16_MoveMadeAfterARightWasLost ==
    /\ last.op = "make_move"
    /\ last.ret = RetTrue
    /\ board.castling_rights[WHITE] = <<FALSE, FALSE>>
    /\ board.board[7][0] # 0
    /\ At(heap, board, 7, 0).color = BLACK

---------------------------------------------------------------------------
(* C20 *)

\* the moves among those callers pass that take a pawn on the Board to the
\* farthest rank for its colour
PawnToFarthestRank ==
    {m \in RawMoves \cup MoveArguments :
        /\ is_valid_position(m[1], m[2]) /\ is_valid_position(m[3], m[4])
        /\ At(heap, board, m[1], m[2]).type = PAWN
        /\ m[3] = IF At(heap, board, m[1], m[2]).color = WHITE THEN 0 ELSE 7}

\* the Board b with heap h holds on (to_row, to_col) a piece of color of the
\* kind asked for, Queen when none was, with has_moved set, and nothing on
\* (from_row, from_col)
Promoted(h, b, color, from_row, from_col, to_row, to_col, promotion_piece) ==
    /\ b.board[from_row][from_col] = 0
    /\ b.board[to_row][to_col] # 0
    /\ At(h, b, to_row, to_col).color = color
    /\ At(h, b, to_row, to_col).type =
           IF promotion_piece = NONE THEN QUEEN ELSE promotion_piece
    /\ At(h, b, to_row, to_col).type # PAWN
    /\ At(h, b, to_row, to_col).has_moved

---------------------------------------------------------------------------
(* C17 *)

\* between this state and the next a pawn of the side to move left its
\* starting rank on file col and stands two ranks ahead on that file, on a
\* square that was empty
DoubleStepOn(col) ==
    LET color == board.current_turn
        direction == IF color = WHITE THEN -1 ELSE 1
        start_row == IF color = WHITE THEN 6 ELSE 1
        IsPawn(piece) == piece.type = PAWN /\ piece.color = color
    IN  /\ IsPawn(At(heap, board, start_row, col))
        /\ board.board[start_row + 2 * direction][col] = 0
        /\ board'.board[start_row][col] = 0
        /\ IsPawn(At(heap', board', start_row + 2 * direction, col))

\* C17: after every move made, by make_move or by make_move_copy, the
\* en-passant target is the square passed over when the move was a pawn's
\* double step from its starting rank, and None after any other move.
C17_EnPassantTargetOnlyAfterADoubleStep ==
    [][board'.current_turn # board.current_turn =>
          LET direction == IF board.current_turn = WHITE THEN -1 ELSE 1
              start_row == IF board.current_turn = WHITE THEN 6 ELSE 1
          IN  IF \E col \in 0 .. 7 : DoubleStepOn(col)
              THEN \E col \in 0 .. 7 :
                      /\ DoubleStepOn(col)
                      /\ board'.en_passant_target = <<start_row + direction, col>>
              ELSE board'.en_passant_target = <<>>]_vars

\* make_move has just made a double step and set the target
C17_DoubleStepMadeInPlace ==
    /\ last.op = "make_move"
    /\ last.ret = RetTrue
    /\ board.en_passant_target # <<>>

---------------------------------------------------------------------------
(* C19 *)

\* the first four components of the records of a move_history
Squares(move_history) ==
    [k \in 1 .. Len(move_history) |-> SubSeq(move_history[k], 1, 4)]

\* C19: a make_move that returns True flips current_turn and appends exactly
\* one record to move_history; a make_move that ends otherwise leaves both
\* as they were.
C19_MakeMoveFlipsAndRecordsOnce ==
    [][last'.op = "make_move" =>
          IF last'.ret = RetTrue
          THEN /\ board'.current_turn = opponent(board.current_turn)
               /\ Len(board'.move_history) = Len(board.move_history) + 1
               /\ SubSeq(Squares(board'.move_history), 1, Len(board.move_history))
                      = Squares(board.move_history)
          ELSE /\ board'.current_turn = board.current_turn
               /\ board'.move_history = board.move_history]_vars

\* the second successful make_move on a Board
C19_TwoMovesRecorded ==
    /\ last.op = "make_move"
    /\ last.ret = RetTrue
    /\ Len(board.move_history) = 2

---------------------------------------------------------------------------
(* C21 *)

\* the home rank of a colour
HomeRank(color) == IF color = WHITE THEN 7 ELSE 0

\* a Piece with has_moved set
Moved(piece) == [piece EXCEPT !.has_moved = TRUE]

\* the king's destination column, the rook's corner column and the rook's
\* destination column, kingside and queenside
CastlingSides == {<<6, 7, 5>>, <<2, 0, 3>>}

\* a move within the home rank of color across two files
TwoFilesOnHomeRank(color, m) ==
    /\ m[1] = HomeRank(color) /\ m[3] = HomeRank(color)
    /\ m[4] - m[2] \in {2, -2}

\* the moves of a king on the Board, offered by get_moves or passed by a
\* caller, that are not two-file moves on its home rank
OtherKingMoves ==
    LET IsKing(row, col) == At(heap, board, row, col).type = KING
        Offered(row, col) ==
            LET moves == get_moves(heap, board, row, col)
            IN  {<<row, col, moves[i][1], moves[i][2]>> : i \in 1 .. Len(moves)}
        Passed == {m \in RawMoves \cup MoveArguments :
                      /\ is_valid_position(m[1], m[2])
                      /\ is_valid_position(m[3], m[4])
                      /\ IsKing(m[1], m[2])}
    IN  {m \in Passed \cup UNION {Offered(RowOf(k), ColOf(k)) :
                                     k \in {j \in 0 .. 63 : IsKing(RowOf(j), ColOf(j))}} :
            ~TwoFilesOnHomeRank(At(heap, board, m[1], m[2]).color, m)}

---------------------------------------------------------------------------
(* C22 *)

\* the Board b2 with heap h2 is the Board b with heap h after the pawn on
\* (row, col) captured en passant onto (to_row, to_col): the opposing pawn
\* beside it is gone, the destination holds the moving pawn, its square is
\* empty and every other square is as it was
CapturedEnPassant(h, b, h2, b2, row, col, to_row, to_col) ==
    /\ b2.board[row][to_col] = 0
    /\ At(h2, b2, to_row, to_col) = Moved(At(h, b, row, col))
    /\ b2.board[row][col] = 0
    /\ \A r \in 0 .. 7, c \in 0 .. 7 :
          <<r, c>> \notin {<<row, col>>, <<row, to_col>>, <<to_row, to_col>>}
              => At(h2, b2, r, c) = At(h, b, r, c)

\* C22: a pawn of the side to move that moves onto the en-passant target
\* removes the opposing pawn beside it, lands on the target and changes no
\* other square, through make_move_copy and through make_move, and make_move
\* records the removed pawn as the captured piece of the move.
C22_EnPassantRemovesThePawnBehind ==
    \A row \in 0 .. 7, col \in 0 .. 7, dc \in {-1, 1} :
        LET direction == IF board.current_turn = WHITE THEN -1 ELSE 1
            to_row == row + direction
            to_col == col + dc
            copied == make_move_copy(heap, board, row, col, to_row, to_col, NONE)
            made == make_move(heap, board, row, col, to_row, to_col, NONE)
            history == View(made.heap, made.board).move_history
        IN  (/\ At(heap, board, row, col).type = PAWN
             /\ At(heap, board, row, col).color = board.current_turn
             /\ is_valid_position(to_row, to_col)
             /\ board.en_passant_target = <<to_row, to_col>>
             /\ JustDoubleStepped(heap, board, row, to_col))
            => /\ CapturedEnPassant(heap, board, copied.heap, copied.new_board,
                                    row, col, to_row, to_col)
               /\ made.ret = RetTrue
               /\ CapturedEnPassant(heap, board, made.heap, made.board,
                                    row, col, to_row, to_col)
               /\ Len(history) = Len(board.move_history) + 1
               /\ history[Len(history)] =
                      <<row, col, to_row, to_col, At(heap, board, row, to_col)>>

---------------------------------------------------------------------------
(* C23 *)

\* the column of the home corner of a side: 1 is kingside, 2 is queenside
CornerCol(side) == IF side = 1 THEN 7 ELSE 0

\* between this state and the next the side to move, color, moved its king
KingMoved(color) ==
    /\ board.current_turn = color
    /\ \E row \in 0 .. 7, col \in 0 .. 7 :
          /\ At(heap, board, row, col).type = KING
          /\ At(heap, board, row, col).color = color
          /\ board'.board[row][col] = 0

\* between this state and the next a rook of color, the side to move, left
\* the home corner of side
RookLeftCorner(color, side) ==
    /\ board.current_turn = color
    /\ At(heap, board, HomeRank(color), CornerCol(side)).type = ROOK
    /\ At(heap, board, HomeRank(color), CornerCol(side)).color = color
    /\ board'.board[HomeRank(color)][CornerCol(side)] = 0

\* between this state and the next a rook of color was captured on the home
\* corner of side
RookCapturedOnCorner(color, side) ==
    /\ board.current_turn = opponent(color)
    /\ At(heap, board, HomeRank(color), CornerCol(side)).type = ROOK
    /\ At(heap, board, HomeRank(color), CornerCol(side)).color = color
    /\ At(heap', board', HomeRank(color), CornerCol(side)).color = opponent(color)

\* C23: a make_move that returns True clears a castling right of a colour
\* only when that colour's king moved, a rook of that colour left the home
\* corner of that side, or a rook of that colour was captured on it.
C23_RightsClearedOnlyByKingOrCornerRook ==
    [][(last'.op = "make_move" /\ last'.ret = RetTrue) =>
          \A color \in Color, side \in 1 .. 2 :
              (/\ board.castling_rights[color][side]
               /\ ~board'.castling_rights[color][side])
                  => \/ KingMoved(color)
                     \/ RookLeftCorner(color, side)
                     \/ RookCapturedOnCorner(color, side)]_vars

---------------------------------------------------------------------------
(* C24 *)

\* what the two ways of applying a move are compared on: the pieces with
\* their has_moved flags, the side to move, the en-passant target and the
\* castling rights
Position(h, b) ==
    [board |-> View(h, b).board,
     current_turn |-> b.current_turn,
     en_passant_target |-> b.en_passant_target,
     castling_rights |-> b.castling_rights]

\* C24: for every move and promotion kind that make_move accepts, the Board
\* make_move_copy returns has the pieces, has_moved flags, side to move,
\* en-passant target and castling rights that the Board has after make_move.
C24_MakeMoveCopyAgreesWithMakeMove ==
    \A m \in MoveArguments, promotion_piece \in PromotionArguments :
        LET made == make_move(heap, board, m[1], m[2], m[3], m[4],
                              promotion_piece)
            copied == make_move_copy(heap, board, m[1], m[2], m[3], m[4],
                                     promotion_piece)
        IN  made.ret = RetTrue =>
                Position(copied.heap, copied.new_board)
                    = Position(made.heap, made.board)

---------------------------------------------------------------------------
(* C25 *)

---------------------------------------------------------------------------
(* C26 *)

\* the list moves as _iterative_deepening holds it when the pass at depth k
\* begins
RECURSIVE MovesAtPass(_, _, _, _, _)
MovesAtPass(self, h, b, moves, k) ==
    IF k = 1 THEN Ok(moves)
    ELSE Bind(MovesAtPass(self, h, b, moves, k - 1), LAMBDA before :
         IF before.exc THEN Raised(<<>>)
         ELSE Bind(_search_at_depth(self, h, b, before.val, k - 1), LAMBDA r :
            IF r.exc THEN Raised(<<>>)
            ELSE IF r.val = <<>> THEN Ok(before.val)
            ELSE Ok(BestFirst(before.val, r.val))))

\* the move the pass at depth k returns, <<>> when it returns None or an
\* exception ends it or a pass before it
BestOfPass(self, h, b, moves, k) ==
    Bind(MovesAtPass(self, h, b, moves, k), LAMBDA before :
        IF before.exc THEN <<>>
        ELSE Bind(_search_at_depth(self, h, b, before.val, k), LAMBDA r :
                IF r.exc THEN <<>> ELSE r.val))

\* the root move the pass at depth k searches first, <<>> when an exception
\* ends it or a pass before it
FirstSearched(self, h, b, moves, k) ==
    Bind(MovesAtPass(self, h, b, moves, k), LAMBDA before :
        IF before.exc THEN <<>>
        ELSE Bind(RootMoves(self, h, b, before.val, k), LAMBDA order :
                IF order.exc \/ order.val = <<>> THEN <<>> ELSE order.val[1]))

\* C26: when an engine of depth d >= 2 searches for the side to move, the
\* pass at each depth k >= 2 searches first the move the pass at depth
\* k - 1 returned (stated for the passes that no exception ends).
C26_EachPassStartsWithTheBestOfTheLast ==
    \A configured_depth \in DeepeningDepths :
        \A k \in 2 .. configured_depth :
            LET self == ChessAI(configured_depth, board.current_turn)
                all == get_all_moves(heap, board, board.current_turn)
            IN  (~all.exc /\ all.val # <<>>) =>
                    Bind(BestOfPass(self, heap, board, all.val, k - 1), LAMBDA best :
                    Bind(FirstSearched(self, heap, board, all.val, k), LAMBDA first :
                        (best # <<>> /\ first # <<>>) => first = best))

---------------------------------------------------------------------------
(* C27 *)

\* the colour _minimax generates the moves of
SideToMove(self, maximizing) ==
    IF maximizing THEN self.color ELSE opponent(self.color)

\* C27: on every board, for an engine of either colour, maximizing or
\* minimizing, _minimax with remaining depth 0 returns what the evaluator
\* returns for the engine's colour; with remaining depth 1, 2 or 3 and no
\* legal move for the side to move it returns minus infinity (maximizing)
\* or plus infinity (minimizing) when that side is in check and 0 when it
\* is not.
C27_MinimaxAtALeafOrWithoutMoves ==
    \A color \in Color, maximizing \in BOOLEAN :
        LET self == ChessAI(3, color)
            side == SideToMove(self, maximizing)
            leaf == _minimax(self, heap, board, 0, -inf, inf, maximizing)
            score == evaluate(heap, board, color)
        IN  /\ ~leaf.exc
            /\ ~score.exc
            /\ leaf.val = score.val
            /\ LegalMoves(heap, board, side) = {} =>
                  \A remaining \in SearchDepths :
                      LET r == _minimax(self, heap, board, remaining, -inf, inf,
                                        maximizing)
                      IN  /\ ~r.exc
                          /\ r.val = IF ~KingInCheck(heap, board, side) THEN 0
                                     ELSE IF maximizing THEN -inf ELSE inf

---------------------------------------------------------------------------
(* C28 *)

\* what a newly constructed engine of the colour last called would return
\* and count on the board: the engines called are those of DeepeningDepths
CountedAfresh(h, b, color) ==
    {get_best_move(ChessAI(configured_depth, color), h, b) :
        configured_depth \in DeepeningDepths}

\* C28 as stated: after a call of get_best_move, get_nodes_evaluated()
\* returns the number of calls of the evaluator at depth 0 made during
\* that call.
C28_CountIsTheLeafEvaluations ==
    [][last'.op = "get_best_move" =>
          \A r \in CountedAfresh(heap, board, last'.color) :
              last'.count = r.leaves]_vars

\* C28 amended: after a call of get_best_move, get_nodes_evaluated()
\* returns the number of calls of _minimax, at every depth and in every
\* pass, made during that call, whatever the engine had counted in earlier
\* calls; it is 0 after a call that returns None.
C28_CountIsTheMinimaxCallsOfTheLastSearch ==
    [][last'.op = "get_best_move" =>
          \A r \in CountedAfresh(heap, board, last'.color) :
              /\ last'.count = r.nodes
              /\ last'.ret = "None" => last'.count = 0
              /\ \A configured_depth \in DeepeningDepths :
                    nodes_evaluated'[<<configured_depth, last'.color>>]
                        = r.nodes]_vars

\* an engine returned a move and counted its search while the engine of
\* the other colour still holds the count of its own earlier search
C28_CountedAfterAnEarlierSearch ==
    /\ last.op = "get_best_move"
    /\ last.ret = "move"
    /\ last.count > 0
    /\ \E engine \in DOMAIN nodes_evaluated :
          engine[2] # last.color /\ nodes_evaluated[engine] > 0

---------------------------------------------------------------------------
(* C29 *)

\* C29: is_in_check(color) returns True exactly when the king of color is
\* on the board and some opposing piece has the king's square among the
\* destinations the move generator gives it (which hold no castling move),
\* and False otherwise; so it returns False when color has no king, and
\* for both colours on the initial position.
C29_InCheckIsAnAttackedKing ==
    last.op = "is_in_check" =>
        /\ last.ret = IF KingInCheck(heap, board, last.color) THEN RetTrue
                      ELSE RetFalse
        /\ find_king(heap, board, last.color) = <<>> => last.ret = RetFalse
        /\ View(heap, board) = View(InitialHeap, InitialBoard)
               => last.ret = RetFalse

---------------------------------------------------------------------------
(* C30 *)

\* C30: the score evaluate returns for a colour is the sum of the material
\* balance, the mobility, the centre control and the king safety of that
\* colour (stated for the evaluations that no exception ends).
C30_EvaluateSumsFourComponents ==
    \A color \in Color :
        LET score == evaluate(heap, board, color)
            own_moves == get_all_moves(heap, board, color)
            safety == _king_safety(heap, board, color)
        IN  (~score.exc /\ ~own_moves.exc /\ ~safety.exc) =>
                score.val = _material_balance(heap, board, color)
                            + Len(own_moves.val)
                            + _center_control(heap, board, color)
                            + safety.val

---------------------------------------------------------------------------
(* C31 *)

\* the number of pieces of a colour and kind on the grid
KindCount(h, b, color, type) ==
    Cardinality({k \in 0 .. 63 :
        /\ At(h, b, RowOf(k), ColOf(k)).type = type
        /\ At(h, b, RowOf(k), ColOf(k)).color = color})

\* both colours hold the same multiset of piece kinds
EqualMaterial(h, b) ==
    \A type \in {PAWN, KNIGHT, BISHOP, ROOK, QUEEN, KING} :
        KindCount(h, b, WHITE, type) = KindCount(h, b, BLACK, type)

\* the material balance of White is minus that of Black, and it is 0 when
\* both colours hold the same kinds of pieces
MaterialIsAntisymmetric(h, b) ==
    /\ _material_balance(h, b, WHITE) = - _material_balance(h, b, BLACK)
    /\ EqualMaterial(h, b) => _material_balance(h, b, WHITE) = 0

\* C31: on every board the material balance of White is minus that of
\* Black and is 0 on equal material, and on the initial position evaluate
\* returns a score of absolute value below 100 for either colour.
C31_MaterialIsAntisymmetricAndTheStartIsLevel ==
    /\ MaterialIsAntisymmetric(heap, board)
    /\ View(heap, board) = View(InitialHeap, InitialBoard) =>
          \A color \in Color :
              LET score == evaluate(heap, board, color)
              IN  /\ ~score.exc
                  /\ -100 < score.val
                  /\ score.val < 100

---------------------------------------------------------------------------
(* C32 *)

\* the evaluation values added to eval_history so far
Added == {eval_history.history[k][2] : k \in 1 .. Len(eval_history.history)}

\* C32: after any non-empty sequence of add_evaluation calls on a fresh
\* EvaluationHistory, get_evaluation_range returns the least and the
\* greatest of the values added, also when all of them are positive or
\* all negative; with none added it returns (0, 0)
C32_RangeIsTheExtremesOfTheValuesAdded ==
    LET range == get_evaluation_range(eval_history)
    IN  IF Added = {} THEN range = <<0, 0>>
        ELSE /\ range[1] \in Added /\ \A v \in Added : range[1] <= v
             /\ range[2] \in Added /\ \A v \in Added : range[2] >= v

---------------------------------------------------------------------------
(* C34 *)

\* C34: at every node visited by the search started from get_best_move,
\* the maximizing flag is True if and only if the node board's side to
\* move is the engine's colour, so the colour whose moves _minimax
\* generates at a node is that board's side to move
C34_MaximizingIsTheEnginesTurn ==
    \A color \in Color, configured_depth \in DeepeningDepths :
        \A node \in get_best_move(ChessAI(configured_depth, color),
                                  heap, board).sides :
            /\ node[1] <=> node[2]
            /\ SideToMove(ChessAI(configured_depth, color), node[1])
                  = (IF node[2] THEN color ELSE opponent(color))

\* a search returned a move after calls of _minimax with the flag False on
\* the other side's turn and with the flag True on the engine's turn
C34_SearchedNodesOfBothSides ==
    /\ last.op = "get_best_move"
    /\ last.ret = "move"
    /\ \E configured_depth \in DeepeningDepths :
          get_best_move(ChessAI(configured_depth, last.color), heap, board).sides
              = {<<TRUE, TRUE>>, <<FALSE, FALSE>>}

---------------------------------------------------------------------------
(* C37 *)

\* what the front end reaches from ChessPygameGUI(): the Board is the
\* initial position, the AI is not thinking and the timer is not armed,
\* and the loop has ended exactly when a click selected a white piece
FrontEndNeverMoves ==
    /\ View(heap, board) = View(InitialHeap, InitialBoard)
    /\ ~gui.ai_thinking
    /\ ~gui.timer
    /\ gui.valid_moves = <<>>
    /\ gui.running <=> gui.selected_square = <<>>

====
